---- MODULE Spec2Model ----
(***************************************************************************)
(* Telegram webhook ingestion pipeline of the KK-BK backend.               *)
(*                                                                         *)
(* Every `await` of routes/webhook.ts is a suspension point of the single  *)
(* threaded event loop: the code between two awaits runs atomically, so    *)
(* each action below is one await (one store query, or one retrieval) and  *)
(* the synchronous code that follows it up to the next await.  Handlers of *)
(* different deliveries and timer callbacks interleave at these points.    *)
(***************************************************************************)
EXTENDS Integers, Sequences, FiniteSets, TLC

\* ------------------------------------------------------------------ bounds
MaxEvents == 2
MaxRounds == 2
MaxFaults == 1
MaxCommands == 2
MaxForwards == 3
MaxMedia == 1

\* ------------------------------------------------------- program constants
DelayMs == 5000
TELEGRAM_MAX_FILE_SIZE == 20971520

\* SQL NULL / JS null for text columns; a nullable number is <<>> or <<n>>.
NullStr == "null"
None == <<>>
Some(x) == <<x>>

\* ---------------------------------------------------------- configuration
\* telegram_bots: read-only to the pipeline except last_sync_at.
BotRows ==
  << [id |-> "b1", bot_token |-> "t1", channel_id |-> "ch1", course_id |-> "cA", is_active |-> TRUE],
     [id |-> "b2", bot_token |-> "t2", channel_id |-> NullStr, course_id |-> "cB", is_active |-> TRUE],
     [id |-> "b3", bot_token |-> "t3", channel_id |-> NullStr, course_id |-> NullStr, is_active |-> TRUE] >>

\* telegram_seller_chats: fan-out bindings chat -> course.
LinkedChatRows ==
  << [id |-> "l1", telegram_chat_id |-> "ch2", course_id |-> "cA", is_active |-> TRUE],
     [id |-> "l2", telegram_chat_id |-> "ch2", course_id |-> "cB", is_active |-> TRUE],
     [id |-> "l3", telegram_chat_id |-> "ch1", course_id |-> "cB", is_active |-> TRUE],
     [id |-> "l4", telegram_chat_id |-> "ch2", course_id |-> "cC", is_active |-> FALSE],
     [id |-> "l5", telegram_chat_id |-> "ch2", course_id |-> "cA", is_active |-> TRUE] >>

\* users: telegram_id -> platform account id.
UserRows ==
  << [id |-> "acc1", telegram_id |-> "u1"] >>

\* --------------------------------------------------------------- messages
NoVariant == [file_id |-> NullStr, width |-> 0, height |-> 0, file_size |-> None]

\* A TelegramMessage; every optional field is <<>> (absent) or <<value>>.
Msg(chat, chatType, id, date, text, caption, group, fwd) ==
  [ message_id |-> id, date |-> date, chat |-> Some([id |-> chat, type |-> chatType]),
    text |-> text, caption |-> caption, media_group_id |-> group, forward_date |-> fwd,
    photo |-> None, video |-> None, document |-> None,
    audio |-> None, animation |-> None, voice |-> None ]

WithPhoto(m, variants) == [m EXCEPT !.photo = Some(variants)]
WithVideo(m, v) == [m EXCEPT !.video = Some(v)]
WithDocument(m, d) == [m EXCEPT !.document = Some(d)]
WithAudio(m, a) == [m EXCEPT !.audio = Some(a)]
WithAnimation(m, a) == [m EXCEPT !.animation = Some(a)]
WithVoice(m, v) == [m EXCEPT !.voice = Some(v)]

Variant(f, w, h, size) == [file_id |-> f, width |-> w, height |-> h, file_size |-> size]
Video(f, size, thumb, mime) ==
  [file_id |-> f, width |-> 640, height |-> 480, duration |-> 10,
   thumbnail |-> thumb, mime_type |-> mime, file_size |-> size]
Document(f, size, name, mime) ==
  [file_id |-> f, file_name |-> name, mime_type |-> mime, file_size |-> size]
Audio(f, size, name, mime) ==
  [file_id |-> f, duration |-> 30, file_name |-> name, mime_type |-> mime, file_size |-> size]
Animation(f, size, thumb, mime) ==
  [file_id |-> f, width |-> 320, height |-> 240, duration |-> 3,
   thumbnail |-> thumb, mime_type |-> mime, file_size |-> size]
Voice(f, size, mime) ==
  [file_id |-> f, duration |-> 5, mime_type |-> mime, file_size |-> size]

\* TelegramUpdate: exactly what the handler reads of req.params and req.body.
Update(bot, field, m) == [botId |-> bot, field |-> field, msg |-> m]

\* -------------------------------------------------------------- extractor
\* JS `x || null` on an optional number: absent and 0 both give null.
OrNull(x) == IF x = None \/ x = Some(0) THEN None ELSE x
\* JS `x || 0`.
OrZero(x) == IF x = None THEN 0 ELSE x[1]

\* message.photo.reduce((prev, cur) => (cur.file_size||0) > (prev.file_size||0) ? cur : prev)
RECURSIVE ReduceLargest(_, _, _)
ReduceLargest(variants, i, prev) ==
  IF i > Len(variants) THEN prev
  ELSE ReduceLargest(variants, i + 1,
         IF OrZero(variants[i].file_size) > OrZero(prev.file_size) THEN variants[i] ELSE prev)

\* Among the variants of the largest size the last listed wins.
largestPhotoLastWins(variants) ==
  variants[CHOOSE k \in 1..Len(variants) :
    /\ \A j \in 1..Len(variants) : OrZero(variants[j].file_size) <= OrZero(variants[k].file_size)
    /\ \A j \in (k + 1)..Len(variants) :
         OrZero(variants[j].file_size) < OrZero(variants[k].file_size)]

largestPhoto(variants) == ReduceLargest(variants, 2, variants[1])

NoMedia ==
  [ media_type |-> NullStr, file_id |-> NullStr, file_size |-> None, file_name |-> NullStr,
    mime_type |-> NullStr, width |-> None, height |-> None, duration |-> None,
    thumbnail_file_id |-> NullStr, has_error |-> FALSE, error_message |-> NullStr ]

\* The gate also closes at the threshold itself.
TooBigInclusive(fileSize) == fileSize # None /\ fileSize[1] >= TELEGRAM_MAX_FILE_SIZE

\* `fileSize && fileSize > TELEGRAM_MAX_FILE_SIZE`
TooBig(fileSize) == fileSize # None /\ fileSize[1] > TELEGRAM_MAX_FILE_SIZE

\* A video field is looked at before the image array.
extractVideoFirst(message) ==
  IF message.video # None THEN
    [NoMedia EXCEPT !.media_type = "video", !.file_id = message.video[1].file_id,
                    !.file_size = OrNull(message.video[1].file_size)]
  ELSE IF message.photo # None THEN
    [NoMedia EXCEPT !.media_type = "image",
                    !.file_id = largestPhoto(message.photo[1]).file_id]
  ELSE NoMedia

extractMediaData(message) ==
  IF message.photo # None THEN
    LET p == largestPhoto(message.photo[1]) IN
    [NoMedia EXCEPT !.media_type = "image", !.file_id = p.file_id,
                    !.file_size = OrNull(p.file_size),
                    !.width = Some(p.width), !.height = Some(p.height)]
  ELSE IF message.video # None THEN
    LET v == message.video[1]
        size == OrNull(v.file_size)
        base == [NoMedia EXCEPT !.media_type = "video", !.file_id = v.file_id,
                   !.file_size = size, !.file_name = "video", !.mime_type = v.mime_type,
                   !.width = Some(v.width), !.height = Some(v.height),
                   !.duration = Some(v.duration), !.thumbnail_file_id = v.thumbnail]
    IN IF TooBig(size)
       THEN [base EXCEPT !.has_error = TRUE, !.error_message = "too big: upload the video manually",
                         !.file_id = NullStr, !.thumbnail_file_id = NullStr]
       ELSE base
  ELSE IF message.document # None THEN
    LET d == message.document[1]
        size == OrNull(d.file_size)
        base == [NoMedia EXCEPT !.media_type = "document", !.file_size = size,
                   !.file_name = d.file_name, !.mime_type = d.mime_type]
    IN IF TooBig(size)
       THEN [base EXCEPT !.has_error = TRUE, !.error_message = "too big: upload the file manually",
                         !.file_id = NullStr]
       ELSE [base EXCEPT !.file_id = d.file_id]
  ELSE IF message.audio # None THEN
    LET a == message.audio[1] IN
    [NoMedia EXCEPT !.media_type = "audio", !.file_id = a.file_id,
                    !.file_size = OrNull(a.file_size), !.file_name = a.file_name,
                    !.mime_type = a.mime_type, !.duration = Some(a.duration)]
  ELSE IF message.animation # None THEN
    LET a == message.animation[1] IN
    [NoMedia EXCEPT !.media_type = "animation", !.file_id = a.file_id,
                    !.file_size = OrNull(a.file_size), !.mime_type = a.mime_type,
                    !.width = Some(a.width), !.height = Some(a.height),
                    !.duration = Some(a.duration), !.thumbnail_file_id = a.thumbnail]
  ELSE IF message.voice # None THEN
    LET v == message.voice[1] IN
    [NoMedia EXCEPT !.media_type = "voice", !.file_id = v.file_id,
                    !.file_size = OrNull(v.file_size), !.mime_type = v.mime_type,
                    !.duration = Some(v.duration), !.file_name = "voice_message"]
  ELSE NoMedia

\* JS truthiness of an optional string.
Truthy(s) == s # NullStr /\ s # ""

\* A file name as the string of its characters.
Chars(name) ==
  CASE name = "video" -> <<"v", "i", "d", "e", "o">>
    [] name = "voice_message" -> <<"v", "o", "i", "c", "e", "_", "m", "e", "s", "s", "a", "g", "e">>
    [] name = "report.pdf" -> <<"r", "e", "p", "o", "r", "t", ".", "p", "d", "f">>
    [] name = "a.tar.gz" -> <<"a", ".", "t", "a", "r", ".", "g", "z">>
    [] name = "db.sqlite" -> <<"d", "b", ".", "s", "q", "l", "i", "t", "e">>
    [] name = "notes" -> <<"n", "o", "t", "e", "s">>
    [] name = "README" -> <<"R", "E", "A", "D", "M", "E">>
    [] name = "draft." -> <<"d", "r", "a", "f", "t", ".">>
    [] name = "song.flac" -> <<"s", "o", "n", "g", ".", "f", "l", "a", "c">>

\* fileName.split('.').pop(): the characters after the last dot, the whole name when
\* it has no dot.
LastSegment(chars) ==
  LET dots == {i \in 1..Len(chars) : chars[i] = "."}
      last == IF dots = {} THEN 0 ELSE CHOOSE i \in dots : \A j \in dots : j <= i
  IN SubSeq(chars, last + 1, Len(chars))

\* The lookup table of guessExtension.
MimeMap ==
  [ m \in {"video/mp4", "video/webm", "video/quicktime", "image/jpeg", "image/png",
           "image/gif", "image/webp", "audio/mpeg", "audio/ogg", "audio/wav",
           "application/pdf"} |->
    CASE m = "video/mp4" -> <<"m", "p", "4">>
      [] m = "video/webm" -> <<"w", "e", "b", "m">>
      [] m = "video/quicktime" -> <<"m", "o", "v">>
      [] m = "image/jpeg" -> <<"j", "p", "g">>
      [] m = "image/png" -> <<"p", "n", "g">>
      [] m = "image/gif" -> <<"g", "i", "f">>
      [] m = "image/webp" -> <<"w", "e", "b", "p">>
      [] m = "audio/mpeg" -> <<"m", "p", "3">>
      [] m = "audio/ogg" -> <<"o", "g", "g">>
      [] m = "audio/wav" -> <<"w", "a", "v">>
      [] m = "application/pdf" -> <<"p", "d", "f">> ]

DefaultExtension(mediaType) ==
  CASE mediaType = "image" -> <<"j", "p", "g">>
    [] mediaType = "video" -> <<"m", "p", "4">>
    [] mediaType = "audio" -> <<"m", "p", "3">>
    [] mediaType = "voice" -> <<"o", "g", "g">>
    [] mediaType = "animation" -> <<"m", "p", "4">>
    [] OTHER -> <<"b", "i", "n">>

guessExtension(mimeType, fileName, mediaType) ==
  LET ext == IF Truthy(fileName) THEN LastSegment(Chars(fileName)) ELSE <<>>
  IN IF ext # <<>> /\ Len(ext) <= 5 THEN ext
     ELSE IF Truthy(mimeType) /\ mimeType \in DOMAIN MimeMap THEN MimeMap[mimeType]
     ELSE DefaultExtension(mediaType)

\* ------------------------------------------------------------------ state
VARIABLES
  handlers,   \* detached processing paths of router.post('/:botId'), in order of receipt
  flushes,    \* setTimeout callbacks of scheduleMediaGroupProcessing, by timer id
  posts,      \* table course_posts
  postMedia,  \* table course_post_media
  buffer,     \* table telegram_media_group_buffer
  sessions,   \* table telegram_import_sessions
  synced,     \* ids of telegram_bots / telegram_seller_chats rows whose last_sync_at was set
  now,        \* wall clock, ms
  firstArrival, \* history: (group, course) key -> time of its first buffered member
  cleanKeys,  \* history: keys flushed to completion with no member buffered since
  faults      \* history: number of store calls that have rejected

vars == <<handlers, flushes, posts, postMedia, buffer, sessions, synced, now,
          firstArrival, cleanKeys, faults>>

\* ---------------------------------------------------------------- helpers
SeqToSet(s) == {s[i] : i \in 1..Len(s)}

\* await queryOne: rows[0] ?? null, as <<>> or <<row>>; without ORDER BY any row may be first.
FirstOf(rows) == IF rows = {} THEN {None} ELSE {Some(r) : r \in rows}

Terminal == {"done", "fault"}

\* new Date(seconds * 1000): the timestamp, in ms.
ToTimestamp(seconds) == seconds * 1000

\* What one handler holds between awaits (its closure).
NewHandler(ev, seen) ==
  [ ev |-> ev, acked |-> FALSE, pc |-> "getBotToken", outcome |-> NullStr,
    botToken |-> NullStr, mode |-> NullStr, targets |-> <<>>,
    storagePath |-> None, thumbnailPath |-> None, hasError |-> FALSE, errorMessage |-> NullStr,
    session |-> None, reply |-> None, counted |-> None, fetched |-> {}, after |-> seen ]

\* return (or the end of the try block): the closure is dropped.
Finish(rec, outcome) ==
  [ rec EXCEPT !.pc = "done", !.outcome = outcome, !.botToken = NullStr, !.mode = NullStr,
               !.targets = <<>>, !.storagePath = None, !.thumbnailPath = None,
               !.hasError = FALSE, !.errorMessage = NullStr, !.session = None ]

Message(h) == handlers[h].ev.msg
Target(h) == Head(handlers[h].targets)
TimerId(h) == <<h, Len(handlers[h].targets)>>
Key(group, course) == [group |-> group, course |-> course]
KeyRows(key) == {e \in buffer : e.media_group_id = key.group /\ e.course_id = key.course}

\* ------------------------------------------------------------- the webhook
\* The response is left to the end of the processing path (and never sent here).
AcknowledgeLater(rec) == rec

\* res.status(200).json({ ok: true })
Acknowledge(rec) == [rec EXCEPT !.acked = TRUE]

\* router.post('/:botId'): the acknowledgement is the handler's first statement;
\* everything after it runs detached from the response.
Accept(ev) ==
  /\ handlers' = Append(handlers,
       Acknowledge(NewHandler(ev, {i \in 1..Len(handlers) : handlers[i].pc \in Terminal})))
  /\ UNCHANGED <<flushes, posts, postMedia, buffer, sessions, synced, now, firstArrival, cleanKeys, faults>>

\* A delivery to the webhook of a channel post, or of an empty or malformed body.
Receive(ev) ==
  /\ Len(handlers) < MaxEvents
  /\ Accept(ev)

\* A delivery of a private-chat message.
ReceivePrivate(ev) ==
  /\ Len(handlers) < MaxCommands
  /\ Accept(ev)

\* Button labels of getMainMenuKeyboard() are rewritten to their commands.
NormalizeCommand(text) ==
  CASE text = "btn:import" -> "/import"
    [] text = "btn:done"   -> "/done"
    [] text = "btn:status" -> "/status"
    [] text = "btn:help"   -> "/help"
    [] OTHER -> text

isForwarded(m) == m.forward_date # None

\* text === '/import' || text.startsWith('/import'), over the texts the model sends.
StartsWithImport(text) == text \in {"/import", "/import now", "/imported"}

\* The retrieval block is entered for every message that has a media category.
EnterSaveUngated(rec) ==
  LET m == rec.ev.msg
      md == extractMediaData(m)
  IN IF m.media_group_id # NullStr THEN [rec EXCEPT !.pc = "bufInsert"]
     ELSE [rec EXCEPT !.pc = IF md.media_type # NullStr THEN "download" ELSE "insertPost",
                      !.storagePath = None, !.thumbnailPath = None,
                      !.hasError = md.has_error, !.errorMessage = md.error_message]

\* The synchronous entry of saveCoursePost (and of the forwarded branch): a group member
\* goes to the buffer, anything else is retrieved when it has a file and then inserted.
EnterSave(rec) ==
  LET m == rec.ev.msg
      md == extractMediaData(m)
  IN IF m.media_group_id # NullStr THEN [rec EXCEPT !.pc = "bufInsert"]
     ELSE [rec EXCEPT !.pc = IF ~md.has_error /\ md.file_id # NullStr THEN "download" ELSE "insertPost",
                      !.storagePath = None, !.thumbnailPath = None,
                      !.hasError = md.has_error, !.errorMessage = md.error_message]

\* await getBotToken(botId), then the routing up to the next await.
GetBotToken(h) ==
  LET rec == handlers[h]
      ev == rec.ev
      bots == {b \in SeqToSet(BotRows) : b.id = ev.botId}
      token == IF bots = {} THEN NullStr ELSE (CHOOSE b \in bots : TRUE).bot_token
      m == ev.msg
      text == NormalizeCommand(m.text)
      private == m.chat[1].type = "private"
      next ==
        IF token = NullStr THEN Finish(rec, "no bot")
        ELSE IF ev.field = "none" THEN Finish(rec, "no message")
        ELSE IF m.chat = None THEN [Finish(rec, "TypeError") EXCEPT !.pc = "fault"]
        ELSE IF ev.field = "channel_post" THEN [rec EXCEPT !.pc = "primary", !.botToken = token]
        ELSE IF private /\ Truthy(m.text) /\ text \in {"/start", "/help"}
          THEN [rec EXCEPT !.pc = "help", !.botToken = token]
        ELSE IF private /\ Truthy(m.text) /\ text = "/status"
          THEN [rec EXCEPT !.pc = "status", !.botToken = token]
        ELSE IF private /\ Truthy(m.text) /\ StartsWithImport(text)
          THEN [rec EXCEPT !.pc = "import", !.botToken = token]
        ELSE IF private /\ Truthy(m.text) /\ text \in {"/done", "/stop"}
          THEN [rec EXCEPT !.pc = "stop", !.botToken = token]
        ELSE IF private /\ isForwarded(m)
          THEN [rec EXCEPT !.pc = "forward", !.botToken = token]
        ELSE Finish(rec, "ignored")
  IN /\ rec.pc = "getBotToken"
     /\ handlers' = [handlers EXCEPT ![h] = next]
     /\ UNCHANGED <<flushes, posts, postMedia, buffer, sessions, synced, now, firstArrival, cleanKeys, faults>>

\* The primary binding is not consulted: every channel post goes to the linked chats.
PrimaryLookupSkipped(h) ==
  /\ handlers[h].pc = "primary"
  /\ handlers' = [handlers EXCEPT ![h] = [handlers[h] EXCEPT !.pc = "linked"]]
  /\ UNCHANGED <<flushes, posts, postMedia, buffer, sessions, synced, now, firstArrival, cleanKeys, faults>>

\* SELECT id, course_id FROM telegram_bots WHERE channel_id = chat id AND is_active.
PrimaryLookup(h) ==
  LET rec == handlers[h]
      chatId == Message(h).chat[1].id
      rows == {b \in SeqToSet(BotRows) : b.channel_id = chatId /\ b.is_active}
  IN /\ rec.pc = "primary"
     /\ \E botRecord \in FirstOf(rows) :
          handlers' = [handlers EXCEPT ![h] =
            IF botRecord # None /\ botRecord[1].course_id # NullStr
            THEN [rec EXCEPT !.pc = "existing", !.mode = "primary",
                     !.targets = << [id |-> botRecord[1].id, course_id |-> botRecord[1].course_id] >>]
            ELSE [rec EXCEPT !.pc = "linked"]]
     /\ UNCHANGED <<flushes, posts, postMedia, buffer, sessions, synced, now, firstArrival, cleanKeys, faults>>

\* The linked chats of the chat id, inactive rows included.
LinkedLookupAnyRow(h) ==
  LET rec == handlers[h]
      chatId == Message(h).chat[1].id
      linkedChats == SelectSeq(LinkedChatRows, LAMBDA l : l.telegram_chat_id = chatId)
      targets == [i \in 1..Len(linkedChats) |->
                    [id |-> linkedChats[i].id, course_id |-> linkedChats[i].course_id]]
  IN /\ rec.pc = "linked"
     /\ handlers' = [handlers EXCEPT ![h] =
          IF targets = <<>> THEN Finish(rec, "no binding")
          ELSE [rec EXCEPT !.pc = "existing", !.mode = "linked", !.targets = targets]]
     /\ UNCHANGED <<flushes, posts, postMedia, buffer, sessions, synced, now, firstArrival, cleanKeys, faults>>

\* SELECT id, course_id FROM telegram_seller_chats WHERE telegram_chat_id = chat id AND is_active.
LinkedLookup(h) ==
  LET rec == handlers[h]
      chatId == Message(h).chat[1].id
      linkedChats == SelectSeq(LinkedChatRows,
                       LAMBDA l : l.telegram_chat_id = chatId /\ l.is_active)
      targets == [i \in 1..Len(linkedChats) |->
                    [id |-> linkedChats[i].id, course_id |-> linkedChats[i].course_id]]
  IN /\ rec.pc = "linked"
     /\ handlers' = [handlers EXCEPT ![h] =
          IF targets = <<>> THEN Finish(rec, "no binding")
          ELSE [rec EXCEPT !.pc = "existing", !.mode = "linked", !.targets = targets]]
     /\ UNCHANGED <<flushes, posts, postMedia, buffer, sessions, synced, now, firstArrival, cleanKeys, faults>>

\* The loop step of the linked-chat loop, or the return of the primary branch.
NextTarget(rec, outcome) ==
  IF rec.mode = "linked" /\ Len(rec.targets) > 1
  THEN [rec EXCEPT !.pc = "existing", !.targets = Tail(rec.targets)]
  ELSE Finish(rec, outcome)

\* The duplicate check left out.
ExistingPostsUnchecked(courseId, messageId) == {}

\* SELECT id FROM course_posts WHERE course_id = $1 AND telegram_message_id = $2.
ExistingPosts(courseId, messageId) ==
  {p \in posts : p.course_id = courseId /\ p.telegram_message_id = Some(messageId)}

\* The existence check in front of saveCoursePost.
CheckExisting(h) ==
  LET rec == handlers[h]
      existing == ExistingPosts(Target(h).course_id, Message(h).message_id)
  IN /\ rec.pc = "existing"
     /\ handlers' = [handlers EXCEPT ![h] =
          IF existing # {} THEN NextTarget(rec, "duplicate") ELSE EnterSave(rec)]
     /\ UNCHANGED <<flushes, posts, postMedia, buffer, sessions, synced, now, firstArrival, cleanKeys, faults>>

\* One pending setTimeout callback of scheduleMediaGroupProcessing.
NewTimer(key, botToken, due) ==
  [ key |-> key, botToken |-> botToken, due |-> due, pc |-> "pending", firedAt |-> None,
    cnt |-> None, entries |-> <<>>, i |-> 0, postId |-> None,
    storagePath |-> None, thumbnailPath |-> None, hasError |-> FALSE, errorMessage |-> NullStr,
    deleted |-> FALSE, left |-> None, quiet |-> FALSE, fetched |-> {} ]

\* A sliding window: the pending timers of the key are cancelled by each arrival.
scheduleSlidingWindow(id, botToken, mediaGroupId, courseId) ==
  LET key == Key(mediaGroupId, courseId)
      kept == {t \in DOMAIN flushes : ~(flushes[t].pc = "pending" /\ flushes[t].key = key)}
  IN flushes' = [t \in kept |-> flushes[t]] @@ (id :> NewTimer(key, botToken, now + DelayMs))

\* A timer is set for the first arrival of a key only.
scheduleOncePerKey(id, botToken, mediaGroupId, courseId) ==
  LET key == Key(mediaGroupId, courseId) IN
  flushes' = IF \E t \in DOMAIN flushes : flushes[t].key = key
             THEN flushes
             ELSE flushes @@ (id :> NewTimer(key, botToken, now + DelayMs))

\* scheduleMediaGroupProcessing: setTimeout(callback, delayMs), nothing else.
scheduleMediaGroupProcessing(id, botToken, mediaGroupId, courseId) ==
  flushes' = flushes @@ (id :> NewTimer(Key(mediaGroupId, courseId), botToken, now + DelayMs))

BufferRow(id, courseId, m, messageDate) ==
  [ id |-> id, course_id |-> courseId, media_group_id |-> m.media_group_id,
    telegram_message_id |-> m.message_id,
    media_data |-> extractMediaData(m),   \* JSON.stringify into jsonb and back
    caption |-> IF Truthy(m.caption) THEN m.caption ELSE NullStr,
    message_date |-> messageDate ]

\* saveCoursePost, group branch: INSERT INTO telegram_media_group_buffer, then schedule.
BufferInsert(h) ==
  LET rec == handlers[h]
      m == Message(h)
      courseId == Target(h).course_id
      key == Key(m.media_group_id, courseId)
  IN /\ rec.pc = "bufInsert"
     /\ rec.mode \in {"primary", "linked"}
     /\ buffer' = buffer \cup
          {BufferRow(<<"e", h, Len(rec.targets)>>, courseId, m, ToTimestamp(m.date))}
     /\ scheduleMediaGroupProcessing(TimerId(h), rec.botToken, m.media_group_id, courseId)
     /\ handlers' = [handlers EXCEPT ![h] = [rec EXCEPT !.pc = "updateSync"]]
     /\ firstArrival' = IF key \in DOMAIN firstArrival THEN firstArrival
                        ELSE firstArrival @@ (key :> now)
     /\ cleanKeys' = cleanKeys \ {key}
     /\ UNCHANGED <<posts, postMedia, sessions, synced, now, faults>>

\* downloadTelegramFileToS3 returns a DownloadResult or null and never throws;
\* downloadTelegramThumbnailToS3 likewise returns a key or null.
\* The platform's side is fixed for a run: a file is either retrievable or it is not.
\* getFile answers without a file_path; the byte fetch answers not ok; the byte fetch
\* rejects; uploadToS3 rejects.
NoFilePath == {"v-44-thumb", "unlisted"}
FetchNotOk == {"gone"}
FetchThrows == {"reset"}
UploadThrows == {"full"}
UnavailableFiles == NoFilePath \cup FetchNotOk \cup FetchThrows \cup UploadThrows

\* The try block of both download functions: null when a stage fails, whether it
\* answers with a failure or throws into the catch.
Download(fileId) == IF fileId \in UnavailableFiles THEN "failed" ELSE "stored"

\* The S3 key `${courseId}/telegram/${timestamp}_${random}.${ext}`; the file id stands
\* for the timestamp and the random suffix.
StoragePath(courseId, fileId, ext) == Some([course |-> courseId, file |-> fileId, ext |-> ext])

\* downloadTelegramFileToS3: the DownloadResult's storage_path, or null.
downloadTelegramFileToS3(fileId, courseId, mediaType, mimeType, fileName) ==
  IF Download(fileId) = "stored"
  THEN StoragePath(courseId, fileId, guessExtension(mimeType, fileName, mediaType))
  ELSE None

\* downloadTelegramThumbnailToS3: the key `${courseId}/thumbnails/....jpg`, or null.
downloadTelegramThumbnailToS3(thumbFileId, courseId) ==
  IF Download(thumbFileId) = "stored"
  THEN StoragePath(courseId, thumbFileId, <<"j", "p", "g">>)
  ELSE None

\* A thumbnail that cannot be retrieved marks the item as failed.
RetrievalThumbStrict(md, courseId, failText) ==
  LET downloaded == downloadTelegramFileToS3(md.file_id, courseId, md.media_type,
                                             md.mime_type, md.file_name)
      thumb == IF md.thumbnail_file_id # NullStr
               THEN downloadTelegramThumbnailToS3(md.thumbnail_file_id, courseId) ELSE None
      failed == downloaded = None \/ (md.thumbnail_file_id # NullStr /\ thumb = None)
  IN
  [ storagePath |-> downloaded,
    hasError |-> failed,
    errorMessage |-> IF failed THEN failText ELSE md.error_message,
    thumbnailPath |-> thumb,
    fetched |-> {md.file_id} \cup (IF md.thumbnail_file_id # NullStr
                                   THEN {md.thumbnail_file_id} ELSE {}) ]

\* The retrieval block `if (!hasError && md.file_id) { ... }`: the file, then the
\* thumbnail when the item has one.  Neither touches the store.  `fetched` lists the
\* file ids handed to the pipeline (history).
Retrieval(md, courseId, failText) ==
  LET downloaded == downloadTelegramFileToS3(md.file_id, courseId, md.media_type,
                                             md.mime_type, md.file_name)
  IN
  [ storagePath |-> downloaded,
    hasError |-> downloaded = None,
    errorMessage |-> IF downloaded # None THEN md.error_message ELSE failText,
    thumbnailPath |-> IF md.thumbnail_file_id # NullStr
                      THEN downloadTelegramThumbnailToS3(md.thumbnail_file_id, courseId)
                      ELSE None,
    fetched |-> {md.file_id} \cup (IF md.thumbnail_file_id # NullStr
                                   THEN {md.thumbnail_file_id} ELSE {}) ]

Retrieve(h) ==
  LET rec == handlers[h]
      md == extractMediaData(Message(h))
  IN /\ rec.pc = "download"
     /\ rec.mode \in {"primary", "linked"}
     /\ LET r == Retrieval(md, Target(h).course_id, "download failed") IN
          handlers' = [handlers EXCEPT ![h] =
            [rec EXCEPT !.pc = "insertPost", !.storagePath = r.storagePath,
                        !.thumbnailPath = r.thumbnailPath, !.hasError = r.hasError,
                        !.errorMessage = r.errorMessage,
                        !.fetched = @ \cup r.fetched]]
     /\ UNCHANGED <<flushes, posts, postMedia, buffer, sessions, synced, now, firstArrival, cleanKeys, faults>>

\* A single row of course_posts (media_count defaults to 1, media_group_id to NULL).
PostRow(id, courseId, m, rec, publishedAt) ==
  LET md == extractMediaData(m) IN
  [ id |-> id, course_id |-> courseId,
    text_content |-> IF Truthy(m.text) THEN m.text ELSE IF Truthy(m.caption) THEN m.caption ELSE "",
    media_type |-> md.media_type, media_group_id |-> NullStr, media_count |-> 1,
    storage_path |-> rec.storagePath, thumbnail_storage_path |-> rec.thumbnailPath,
    telegram_message_id |-> Some(m.message_id),
    file_size |-> md.file_size, file_name |-> md.file_name, mime_type |-> md.mime_type,
    telegram_media_width |-> md.width, telegram_media_height |-> md.height,
    telegram_media_duration |-> md.duration,
    has_error |-> rec.hasError, error_message |-> rec.errorMessage,
    published_at |-> publishedAt ]

\* saveCoursePost, single branch: INSERT INTO course_posts.
InsertPost(h) ==
  LET rec == handlers[h]
      m == Message(h)
  IN /\ rec.pc = "insertPost"
     /\ rec.mode \in {"primary", "linked"}
     /\ posts' = posts \cup
          {PostRow(<<"h", h, Len(rec.targets)>>, Target(h).course_id, m, rec, ToTimestamp(m.date))}
     /\ handlers' = [handlers EXCEPT ![h] = [rec EXCEPT !.pc = "updateSync"]]
     /\ UNCHANGED <<flushes, postMedia, buffer, sessions, synced, now, firstArrival, cleanKeys, faults>>

\* UPDATE telegram_bots / telegram_seller_chats SET last_sync_at = NOW() WHERE id = $1.
UpdateSync(h) ==
  LET rec == handlers[h] IN
  /\ rec.pc = "updateSync"
  /\ synced' = synced \cup {Target(h).id}
  /\ handlers' = [handlers EXCEPT ![h] = NextTarget(rec, "ingested")]
  /\ UNCHANGED <<flushes, posts, postMedia, buffer, sessions, now, firstArrival, cleanKeys, faults>>

\* Awaits of calls that catch their own errors: the downloads and sendTelegramMessage.
NeverThrows == {"download", "help", "fwdDownload"}

\* The rejection is not caught: the process ends, and with it every handler and timer
\* callback that has not finished.
HandlerFaultUncaught(h) ==
  LET rec == handlers[h] IN
  /\ rec.pc \notin Terminal \cup NeverThrows
  /\ faults < MaxFaults
  /\ faults' = faults + 1
  /\ handlers' = [i \in DOMAIN handlers |->
                    IF handlers[i].pc \in Terminal THEN handlers[i]
                    ELSE [Finish(handlers[i], "killed") EXCEPT !.pc = "fault"]]
  /\ flushes' = [t \in DOMAIN flushes |->
                   IF flushes[t].pc \in Terminal THEN flushes[t]
                   ELSE [flushes[t] EXCEPT !.pc = "fault"]]
  /\ UNCHANGED <<posts, postMedia, buffer, sessions, synced, now, firstArrival, cleanKeys>>

\* An awaited store call rejects: the catch of the handler's try block logs it.
HandlerFault(h) ==
  LET rec == handlers[h] IN
  /\ rec.pc \notin Terminal \cup NeverThrows
  /\ faults < MaxFaults
  /\ faults' = faults + 1
  /\ handlers' = [handlers EXCEPT ![h] = [Finish(rec, "logged") EXCEPT !.pc = "fault"]]
  /\ UNCHANGED <<flushes, posts, postMedia, buffer, sessions, synced, now, firstArrival, cleanKeys>>

\* ------------------------------------------------------- import sessions
ActiveSessions(user) == {x \in sessions : x.telegram_user_id = user /\ x.is_active}
User(h) == Message(h).chat[1].id
Reply(rec, text, count) == [rec EXCEPT !.reply = Some([text |-> text, count |-> count])]

\* /start and /help: await sendTelegramMessage(helpText).
SendHelp(h) ==
  LET rec == handlers[h] IN
  /\ rec.pc = "help"
  /\ handlers' = [handlers EXCEPT ![h] = Finish(Reply(rec, "usage", None), "replied")]
  /\ UNCHANGED <<flushes, posts, postMedia, buffer, sessions, synced, now, firstArrival, cleanKeys, faults>>

\* The status lookup finds no session, whatever the table holds.
StatusNeverFinds(h) ==
  /\ handlers[h].pc = "status"
  /\ handlers' = [handlers EXCEPT ![h] =
       Finish(Reply(handlers[h], "no active import", None), "replied")]
  /\ UNCHANGED <<flushes, posts, postMedia, buffer, sessions, synced, now, firstArrival, cleanKeys, faults>>

\* /status: SELECT ... FROM telegram_import_sessions WHERE user AND is_active, then the reply.
Status(h) ==
  LET rec == handlers[h] IN
  /\ rec.pc = "status"
  /\ \E session \in FirstOf(ActiveSessions(User(h))) :
       handlers' = [handlers EXCEPT ![h] =
         IF session = None THEN Finish(Reply(rec, "no active import", None), "replied")
         ELSE Finish(Reply(rec, session[1].course_id, Some(session[1].message_count)), "replied")]
  /\ UNCHANGED <<flushes, posts, postMedia, buffer, sessions, synced, now, firstArrival, cleanKeys, faults>>

\* /import: SELECT b.course_id FROM telegram_bots b WHERE b.id = botId AND b.is_active.
ImportBot(h) ==
  LET rec == handlers[h]
      rows == {b \in SeqToSet(BotRows) : b.id = rec.ev.botId /\ b.is_active}
  IN /\ rec.pc = "import"
     /\ \E bot \in FirstOf(rows) :
          handlers' = [handlers EXCEPT ![h] =
            IF bot = None \/ bot[1].course_id = NullStr
            THEN Finish(Reply(rec, "no course for this bot", None), "replied")
            ELSE [rec EXCEPT !.pc = "importUser", !.mode = "import",
                     !.targets = << [id |-> NullStr, course_id |-> bot[1].course_id] >>]]
     /\ UNCHANGED <<flushes, posts, postMedia, buffer, sessions, synced, now, firstArrival, cleanKeys, faults>>

\* The account lookup's result is not tested: an unlinked user goes on to the session.
ImportUserUnchecked(h) ==
  LET rec == handlers[h] IN
  /\ rec.pc = "importUser"
  /\ handlers' = [handlers EXCEPT ![h] =
       [rec EXCEPT !.pc = "importDeactivate",
                   !.targets = << [id |-> NullStr, course_id |-> Target(h).course_id] >>]]
  /\ UNCHANGED <<flushes, posts, postMedia, buffer, sessions, synced, now, firstArrival, cleanKeys, faults>>

\* SELECT id FROM users WHERE telegram_id = $1.
ImportUser(h) ==
  LET rec == handlers[h]
      rows == {u \in SeqToSet(UserRows) : u.telegram_id = User(h)}
  IN /\ rec.pc = "importUser"
     /\ \E dbUser \in FirstOf(rows) :
          handlers' = [handlers EXCEPT ![h] =
            IF dbUser = None
            THEN Finish(Reply(rec, "account not linked", None), "replied")
            ELSE [rec EXCEPT !.pc = "importDeactivate",
                     !.targets = << [id |-> dbUser[1].id, course_id |-> Target(h).course_id] >>]]
     /\ UNCHANGED <<flushes, posts, postMedia, buffer, sessions, synced, now, firstArrival, cleanKeys, faults>>

\* The start command deactivates nothing.
ImportKeepsActive(h) ==
  /\ handlers[h].pc = "importDeactivate"
  /\ handlers' = [handlers EXCEPT ![h] = [handlers[h] EXCEPT !.pc = "importInsert"]]
  /\ UNCHANGED <<flushes, posts, postMedia, buffer, sessions, synced, now, firstArrival, cleanKeys, faults>>

\* UPDATE telegram_import_sessions SET is_active = false, completed_at = NOW()
\* WHERE telegram_user_id = $1 AND is_active = true.
ImportDeactivate(h) ==
  LET rec == handlers[h] IN
  /\ rec.pc = "importDeactivate"
  /\ sessions' = {IF x \in ActiveSessions(User(h))
                  THEN [x EXCEPT !.is_active = FALSE, !.completed_at = Some(now)]
                  ELSE x : x \in sessions}
  /\ handlers' = [handlers EXCEPT ![h] = [rec EXCEPT !.pc = "importInsert"]]
  /\ UNCHANGED <<flushes, posts, postMedia, buffer, synced, now, firstArrival, cleanKeys, faults>>

\* A new row of telegram_import_sessions (message_count defaults to 0).
SessionRow(id, user, platformUser, courseId) ==
  [ id |-> id, telegram_user_id |-> user, platform_user_id |-> platformUser,
    course_id |-> courseId, message_count |-> 0, is_active |-> TRUE, completed_at |-> None ]

\* The start command reuses the user's rows: it sets them active again instead of inserting.
ImportReactivate(h) ==
  LET rec == handlers[h]
      mine == {x \in sessions : x.telegram_user_id = User(h)}
  IN /\ rec.pc = "importInsert"
     /\ sessions' = IF mine = {}
                     THEN sessions \cup {SessionRow(<<"s", h, 0>>, User(h), Target(h).id, Target(h).course_id)}
                     ELSE {IF x \in mine
                           THEN [x EXCEPT !.is_active = TRUE, !.completed_at = None, !.message_count = 0]
                           ELSE x : x \in sessions}
     /\ handlers' = [handlers EXCEPT ![h] = Finish(Reply(rec, "import started", None), "replied")]
     /\ UNCHANGED <<flushes, posts, postMedia, buffer, synced, now, firstArrival, cleanKeys, faults>>

\* INSERT INTO telegram_import_sessions (..., is_active) VALUES (..., true), then the reply.
ImportInsert(h) ==
  LET rec == handlers[h] IN
  /\ rec.pc = "importInsert"
  /\ sessions' = sessions \cup
       {SessionRow(<<"s", h, 0>>, User(h), Target(h).id, Target(h).course_id)}
  /\ handlers' = [handlers EXCEPT ![h] =
       Finish(Reply(rec, "import started", None), "replied")]
  /\ UNCHANGED <<flushes, posts, postMedia, buffer, synced, now, firstArrival, cleanKeys, faults>>

\* /done, /stop: SELECT id, message_count FROM telegram_import_sessions WHERE user AND is_active.
StopRead(h) ==
  LET rec == handlers[h] IN
  /\ rec.pc = "stop"
  /\ \E session \in FirstOf(ActiveSessions(User(h))) :
       handlers' = [handlers EXCEPT ![h] =
         IF session = None THEN Finish(Reply(rec, "no active import", None), "replied")
         ELSE [rec EXCEPT !.pc = "stopUpdate", !.session = session]]
  /\ UNCHANGED <<flushes, posts, postMedia, buffer, sessions, synced, now, firstArrival, cleanKeys, faults>>

\* The stop command replies and leaves the session as it is.
StopReplyOnly(h) ==
  LET rec == handlers[h] IN
  /\ rec.pc = "stopUpdate"
  /\ handlers' = [handlers EXCEPT ![h] =
       Finish(Reply(rec, "import finished", Some(rec.session[1].message_count)), "replied")]
  /\ UNCHANGED <<flushes, posts, postMedia, buffer, sessions, synced, now, firstArrival, cleanKeys, faults>>

\* UPDATE telegram_import_sessions SET is_active = false, completed_at = NOW() WHERE id = $1.
StopUpdate(h) ==
  LET rec == handlers[h]
      session == rec.session[1]
  IN /\ rec.pc = "stopUpdate"
     /\ sessions' = {IF x.id = session.id
                     THEN [x EXCEPT !.is_active = FALSE, !.completed_at = Some(now)]
                     ELSE x : x \in sessions}
     /\ handlers' = [handlers EXCEPT ![h] =
          Finish(Reply(rec, "import finished", Some(session.message_count)), "replied")]
     /\ UNCHANGED <<flushes, posts, postMedia, buffer, synced, now, firstArrival, cleanKeys, faults>>

\* ------------------------------------------------- forwarded messages
\* message.forward_date || message.forward_origin?.date || message.date
forwardTimestamp(m) ==
  IF m.forward_date # None /\ m.forward_date[1] # 0 THEN m.forward_date[1] ELSE m.date

\* The session lookup reads every session of the user, Completed ones included.
ForwardAnySession(h) ==
  LET rec == handlers[h]
      md == extractMediaData(Message(h))
  IN /\ rec.pc = "forward"
     /\ \E session \in FirstOf({x \in sessions : x.telegram_user_id = User(h)}) :
          handlers' = [handlers EXCEPT ![h] =
            IF session = None THEN Finish(rec, "no session")
            ELSE [rec EXCEPT
                    !.session = session, !.mode = "forward",
                    !.targets = << [id |-> session[1].id, course_id |-> session[1].course_id] >>,
                    !.pc = IF Message(h).media_group_id # NullStr THEN "fwdBuffer"
                           ELSE IF ~md.has_error /\ md.file_id # NullStr THEN "fwdDownload"
                           ELSE "fwdInsertPost",
                    !.hasError = md.has_error, !.errorMessage = md.error_message]]
     /\ UNCHANGED <<flushes, posts, postMedia, buffer, sessions, synced, now, firstArrival, cleanKeys, faults>>

\* SELECT id, course_id, message_count FROM telegram_import_sessions WHERE user AND
\* is_active; `if (!session) return`, else the synchronous code up to the next await.
ForwardSession(h) ==
  LET rec == handlers[h]
      md == extractMediaData(Message(h))
  IN /\ rec.pc = "forward"
     /\ \E session \in FirstOf(ActiveSessions(User(h))) :
          handlers' = [handlers EXCEPT ![h] =
            IF session = None THEN Finish(rec, "no session")
            ELSE [rec EXCEPT
                    !.session = session, !.mode = "forward",
                    !.targets = << [id |-> session[1].id, course_id |-> session[1].course_id] >>,
                    !.pc = IF Message(h).media_group_id # NullStr THEN "fwdBuffer"
                           ELSE IF ~md.has_error /\ md.file_id # NullStr THEN "fwdDownload"
                           ELSE "fwdInsertPost",
                    !.hasError = md.has_error, !.errorMessage = md.error_message]]
     /\ UNCHANGED <<flushes, posts, postMedia, buffer, sessions, synced, now, firstArrival, cleanKeys, faults>>

\* Forwarded group member: INSERT INTO telegram_media_group_buffer, then schedule.
ForwardBufferInsert(h) ==
  LET rec == handlers[h]
      m == Message(h)
      courseId == Target(h).course_id
      key == Key(m.media_group_id, courseId)
  IN /\ rec.pc = "fwdBuffer"
     /\ buffer' = buffer \cup
          {BufferRow(<<"e", h, 1>>, courseId, m, ToTimestamp(forwardTimestamp(m)))}
     /\ scheduleMediaGroupProcessing(TimerId(h), rec.botToken, m.media_group_id, courseId)
     /\ handlers' = [handlers EXCEPT ![h] = [rec EXCEPT !.pc = "fwdCount"]]
     /\ firstArrival' = IF key \in DOMAIN firstArrival THEN firstArrival
                        ELSE firstArrival @@ (key :> now)
     /\ cleanKeys' = cleanKeys \ {key}
     /\ UNCHANGED <<posts, postMedia, sessions, synced, now, faults>>

\* Forwarded single message: the retrieval block.
ForwardRetrieve(h) ==
  LET rec == handlers[h]
      r == Retrieval(extractMediaData(Message(h)), Target(h).course_id,
                     "download failed, the file may exceed 20 MB")
  IN /\ rec.pc = "fwdDownload"
     /\ handlers' = [handlers EXCEPT ![h] =
          [rec EXCEPT !.pc = "fwdInsertPost", !.storagePath = r.storagePath,
                      !.thumbnailPath = r.thumbnailPath, !.hasError = r.hasError,
                      !.errorMessage = r.errorMessage,
                      !.fetched = @ \cup r.fetched]]
     /\ UNCHANGED <<flushes, posts, postMedia, buffer, sessions, synced, now, firstArrival, cleanKeys, faults>>

\* Forwarded single message: INSERT INTO course_posts under the session's collection.
ForwardInsertPost(h) ==
  LET rec == handlers[h]
      m == Message(h)
  IN /\ rec.pc = "fwdInsertPost"
     /\ posts' = posts \cup
          {PostRow(<<"h", h, 1>>, Target(h).course_id, m, rec, ToTimestamp(forwardTimestamp(m)))}
     /\ handlers' = [handlers EXCEPT ![h] = [rec EXCEPT !.pc = "fwdCount"]]
     /\ UNCHANGED <<flushes, postMedia, buffer, sessions, synced, now, firstArrival, cleanKeys, faults>>

\* UPDATE telegram_import_sessions SET message_count = $1 WHERE id = $2, with
\* $1 = session.message_count + 1 computed from the row as read by the lookup.
ForwardCount(h) ==
  LET rec == handlers[h]
      session == rec.session[1]
  IN /\ rec.pc = "fwdCount"
     /\ sessions' = {IF x.id = session.id
                     THEN [x EXCEPT !.message_count = session.message_count + 1]
                     ELSE x : x \in sessions}
     /\ handlers' = [handlers EXCEPT ![h] =
          [Finish(rec, "counted") EXCEPT !.counted = Some(session.id)]]
     /\ UNCHANGED <<flushes, posts, postMedia, buffer, synced, now, firstArrival, cleanKeys, faults>>

\* ------------------------------------------------------------ the flush
\* The same query without its ORDER BY: the rows in any order.
InAnyOrder(rows) ==
  LET n == Cardinality(rows) IN
  { s \in [1..n -> rows] : \A i, j \in 1..n : i # j => s[i] # s[j] }

\* SELECT ... ORDER BY telegram_message_id: every order of the rows that is sorted by
\* message id (rows with equal ids come in either order).
OrderedByMessageId(rows) ==
  LET n == Cardinality(rows) IN
  { s \in [1..n -> rows] :
      /\ \A i, j \in 1..n : i # j => s[i] # s[j]
      /\ \A i \in 1..n, j \in 1..n : i < j => s[i].telegram_message_id <= s[j].telegram_message_id }

\* The timer expires and its callback starts.
TimerFire(t) ==
  /\ flushes[t].pc = "pending"
  /\ flushes[t].due <= now
  /\ flushes' = [flushes EXCEPT ![t] = [@ EXCEPT !.pc = "count", !.firedAt = Some(now)]]
  /\ UNCHANGED <<handlers, posts, postMedia, buffer, sessions, synced, now, firstArrival, cleanKeys, faults>>

FinishFlush(f) == [f EXCEPT !.pc = "done"]

\* SELECT COUNT(*) ... ; if (Number(count?.cnt) > 0) await processMediaGroupBuffer(...)
FlushCount(t) ==
  LET f == flushes[t]
      cnt == Cardinality(KeyRows(f.key))
  IN /\ f.pc = "count"
     /\ flushes' = [flushes EXCEPT ![t] =
          [(IF cnt > 0 THEN [f EXCEPT !.pc = "read"] ELSE FinishFlush(f))
             EXCEPT !.cnt = Some(cnt), !.quiet = f.key \in cleanKeys]]
     /\ UNCHANGED <<handlers, posts, postMedia, buffer, sessions, synced, now, firstArrival, cleanKeys, faults>>

\* The loop is left at the first entry that ended with an error.
NextEntryStopsAtError(f, i) ==
  IF i > Len(f.entries) \/ f.hasError
  THEN [f EXCEPT !.pc = "delete", !.i = i, !.storagePath = None, !.thumbnailPath = None,
                 !.hasError = FALSE, !.errorMessage = NullStr]
  ELSE LET md == f.entries[i].media_data IN
       [f EXCEPT !.i = i,
                 !.pc = IF ~md.has_error /\ md.file_id # NullStr THEN "download" ELSE "insertMedia",
                 !.storagePath = None, !.thumbnailPath = None,
                 !.hasError = md.has_error, !.errorMessage = md.error_message]

\* The item at index i of the entries read: retrieved first when it has a file.
NextEntry(f, i) ==
  IF i > Len(f.entries)
  THEN [f EXCEPT !.pc = "delete", !.i = i, !.storagePath = None, !.thumbnailPath = None,
                 !.hasError = FALSE, !.errorMessage = NullStr]
  ELSE LET md == f.entries[i].media_data IN
       [f EXCEPT !.i = i,
                 !.pc = IF ~md.has_error /\ md.file_id # NullStr THEN "download" ELSE "insertMedia",
                 !.storagePath = None, !.thumbnailPath = None,
                 !.hasError = md.has_error, !.errorMessage = md.error_message]

\* processMediaGroupBuffer: SELECT * FROM telegram_media_group_buffer WHERE key ORDER BY id.
FlushRead(t) ==
  LET f == flushes[t] IN
  /\ f.pc = "read"
  /\ \E entries \in OrderedByMessageId(KeyRows(f.key)) :
       flushes' = [flushes EXCEPT ![t] =
         IF entries = <<>> THEN FinishFlush(f)
         ELSE [f EXCEPT !.pc = "insertPost", !.entries = entries]]
  /\ UNCHANGED <<handlers, posts, postMedia, buffer, sessions, synced, now, firstArrival, cleanKeys, faults>>

\* entries.find((e) => e.caption)?.caption || ''
RECURSIVE FirstCaption(_, _)
FirstCaption(entries, i) ==
  IF i > Len(entries) THEN ""
  ELSE IF Truthy(entries[i].caption) THEN entries[i].caption
  ELSE FirstCaption(entries, i + 1)

\* The parent row of a media group.
GroupPostRow(id, f) ==
  [ id |-> id, course_id |-> f.key.course,
    text_content |-> FirstCaption(f.entries, 1),
    media_type |-> "media_group", media_group_id |-> f.key.group,
    media_count |-> Len(f.entries),
    storage_path |-> None, thumbnail_storage_path |-> None,
    telegram_message_id |-> None,
    file_size |-> None, file_name |-> NullStr, mime_type |-> NullStr,
    telegram_media_width |-> None, telegram_media_height |-> None,
    telegram_media_duration |-> None,
    has_error |-> FALSE, error_message |-> NullStr,
    published_at |-> f.entries[1].message_date ]

\* INSERT INTO course_posts (..., 'media_group', ...) RETURNING id.
FlushInsertPost(t) ==
  LET f == flushes[t]
      postId == <<"f", t[1], t[2]>>
  IN /\ f.pc = "insertPost"
     /\ posts' = posts \cup {GroupPostRow(postId, f)}
     /\ flushes' = [flushes EXCEPT ![t] = NextEntry([f EXCEPT !.postId = Some(postId)], 1)]
     /\ UNCHANGED <<handlers, postMedia, buffer, sessions, synced, now, firstArrival, cleanKeys, faults>>

\* The retrieval block of the loop body.
FlushRetrieve(t) ==
  LET f == flushes[t]
      md == f.entries[f.i].media_data
  IN /\ f.pc = "download"
     /\ LET r == Retrieval(md, f.key.course, "download failed") IN
          flushes' = [flushes EXCEPT ![t] =
            [f EXCEPT !.pc = "insertMedia", !.storagePath = r.storagePath,
                      !.thumbnailPath = r.thumbnailPath, !.hasError = r.hasError,
                      !.errorMessage = r.errorMessage,
                      !.fetched = @ \cup {<<f.entries[f.i].id, x>> : x \in r.fetched}]]
     /\ UNCHANGED <<handlers, posts, postMedia, buffer, sessions, synced, now, firstArrival, cleanKeys, faults>>

\* A row of course_post_media; src and src_message_id name the buffered entry it was
\* made from (history, not columns).
MediaRow(f) ==
  LET md == f.entries[f.i].media_data IN
  [ post_id |-> f.postId[1], order_index |-> f.i - 1, media_type |-> md.media_type,
    storage_path |-> f.storagePath, thumbnail_storage_path |-> f.thumbnailPath,
    file_name |-> md.file_name, file_size |-> md.file_size, mime_type |-> md.mime_type,
    telegram_media_width |-> md.width, telegram_media_height |-> md.height,
    telegram_media_duration |-> md.duration,
    has_error |-> f.hasError, error_message |-> f.errorMessage,
    src |-> f.entries[f.i].id, src_message_id |-> f.entries[f.i].telegram_message_id ]

\* INSERT INTO course_post_media (..., order_index = i), then the next loop iteration.
FlushInsertMedia(t) ==
  LET f == flushes[t] IN
  /\ f.pc = "insertMedia"
  /\ postMedia' = postMedia \cup {MediaRow(f)}
  /\ flushes' = [flushes EXCEPT ![t] = NextEntry(f, f.i + 1)]
  /\ UNCHANGED <<handlers, posts, buffer, sessions, synced, now, firstArrival, cleanKeys, faults>>

\* The two parameters of the DELETE swapped: no row matches.
DeleteKeySwapped(key) ==
  buffer \ {e \in buffer : e.media_group_id = key.course /\ e.course_id = key.group}

\* DELETE FROM telegram_media_group_buffer WHERE media_group_id = $1 AND course_id = $2.
DeleteKey(key) == buffer \ KeyRows(key)

\* The last statement of processMediaGroupBuffer.
FlushDelete(t) ==
  LET f == flushes[t] IN
  /\ f.pc = "delete"
  /\ buffer' = DeleteKey(f.key)
  /\ flushes' = [flushes EXCEPT ![t] =
       [FinishFlush(f) EXCEPT !.deleted = TRUE,
          !.left = Some(Cardinality({e \in buffer' : e.media_group_id = f.key.group
                                                     /\ e.course_id = f.key.course}))]]
  /\ cleanKeys' = cleanKeys \cup {f.key}
  /\ UNCHANGED <<handlers, posts, postMedia, sessions, synced, now, firstArrival, faults>>

\* An awaited store call of the callback rejects: its catch logs it.
FlushFault(t) ==
  LET f == flushes[t] IN
  /\ f.pc \in {"count", "read", "insertPost", "insertMedia", "delete"}
  /\ faults < MaxFaults
  /\ faults' = faults + 1
  /\ flushes' = [flushes EXCEPT ![t] =
       [f EXCEPT !.pc = "fault", !.storagePath = None, !.thumbnailPath = None,
                 !.hasError = FALSE, !.errorMessage = NullStr]]
  /\ UNCHANGED <<handlers, posts, postMedia, buffer, sessions, synced, now, firstArrival, cleanKeys>>

\* ----------------------------------------------------------------- time
PendingDues == {flushes[t].due : t \in {x \in DOMAIN flushes : flushes[x].pc = "pending"}}
Horizon == MaxRounds * DelayMs

\* A timer fires when it is due, so time does not pass an expiry.
CanPassTo(t2) ==
  /\ t2 > now
  /\ t2 <= Horizon
  /\ \A d \in PendingDues : d >= t2

\* Time passes to the next expiry.
Advance ==
  /\ \E t2 \in PendingDues : CanPassTo(t2) /\ now' = t2
  /\ UNCHANGED <<handlers, flushes, posts, postMedia, buffer, sessions, synced, firstArrival, cleanKeys, faults>>

\* Time passes between two deliveries that fall inside one window.
Gaps == {2000}
Wait ==
  /\ PendingDues # {}
  /\ \E g \in Gaps : CanPassTo(now + g) /\ now' = now + g
  /\ UNCHANGED <<handlers, flushes, posts, postMedia, buffer, sessions, synced, firstArrival, cleanKeys, faults>>

\* ------------------------------------------------------------- deliveries
\* A channel post with one photo, no group: message 42 of the primary channel of b1.
Post42 ==
  WithPhoto(Msg("ch1", "channel", 42, 100, NullStr, "hello", NullStr, None),
            << Variant("p-small", 90, 90, Some(1000)), Variant("p-large", 800, 600, Some(50000)) >>)
\* Two members of the album mg1 in the same channel; the later one carries the caption.
Album43 ==
  WithPhoto(Msg("ch1", "channel", 43, 101, NullStr, NullStr, "mg1", None),
            << Variant("a-43", 800, 600, Some(50000)) >>)
Album44 ==
  WithVideo(Msg("ch1", "channel", 44, 101, NullStr, "album", "mg1", None),
            Video("v-44", Some(900000), "v-44-thumb", "video/mp4"))
\* A text post of a chat bound by linked-chat rows only.
Linked42 == Msg("ch2", "channel", 42, 102, "news", NullStr, NullStr, None)
\* A body whose message has no chat object.
NoChat == [Msg("ch1", "channel", 45, 103, NullStr, NullStr, NullStr, None) EXCEPT !.chat = None]

\* Deliveries of posts that carry no group id, to known and unknown bots.
SingleEvents ==
  { Update("b1", "channel_post", Post42),
    Update("b2", "channel_post", Linked42),
    Update("b0", "channel_post", Post42),
    Update("b1", "none", NoChat),
    Update("b1", "channel_post", NoChat) }

\* Deliveries of the members of one album.
AlbumEvents ==
  { Update("b1", "channel_post", Album43),
    Update("b1", "channel_post", Album44) }

\* ------------------------------------------------------------ specification
Init ==
  /\ handlers = <<>>
  /\ flushes = <<>>
  /\ posts = {}
  /\ postMedia = {}
  /\ buffer = {}
  /\ sessions = {}
  /\ synced = {}
  /\ now = 0
  /\ firstArrival = <<>>
  /\ cleanKeys = {}
  /\ faults = 0

Handler == 1..Len(handlers)
Timer == DOMAIN flushes

\* Channel posts without a group id: routing, duplicate check, retrieval, insert.
Next ==
  \/ \E ev \in SingleEvents : Receive(ev)
  \/ \E h \in Handler : GetBotToken(h)
  \/ \E h \in Handler : PrimaryLookup(h)
  \/ \E h \in Handler : LinkedLookup(h)
  \/ \E h \in Handler : CheckExisting(h)
  \/ \E h \in Handler : Retrieve(h)
  \/ \E h \in Handler : InsertPost(h)
  \/ \E h \in Handler : UpdateSync(h)
  \/ \E h \in Handler : HandlerFault(h)

Spec == Init /\ [][Next]_vars

\* The timer callbacks of the aggregator.
FlushStep ==
  \/ \E t \in Timer : TimerFire(t)
  \/ \E t \in Timer : FlushCount(t)
  \/ \E t \in Timer : FlushRead(t)
  \/ \E t \in Timer : FlushInsertPost(t)
  \/ \E t \in Timer : FlushRetrieve(t)
  \/ \E t \in Timer : FlushInsertMedia(t)
  \/ \E t \in Timer : FlushDelete(t)
  \/ \E t \in Timer : FlushFault(t)

\* Album members posted to the primary channel: buffering, timers, flushes.
NextAlbum ==
  \/ \E ev \in AlbumEvents : Receive(ev)
  \/ \E h \in Handler : GetBotToken(h)
  \/ \E h \in Handler : PrimaryLookup(h)
  \/ \E h \in Handler : CheckExisting(h)
  \/ \E h \in Handler : BufferInsert(h)
  \/ \E h \in Handler : UpdateSync(h)
  \/ \E h \in Handler : HandlerFault(h)
  \/ FlushStep
  \/ Advance

SpecAlbum == Init /\ [][NextAlbum]_vars

\* The same, with deliveries spread over the window.
NextTimed == NextAlbum \/ Wait

SpecTimed == Init /\ [][NextTimed]_vars

\* Private-chat commands of a linked user (u1) and of an unlinked one (u2).
Command(bot, user, text) ==
  Update(bot, "message", Msg(user, "private", 7, 200, text, NullStr, NullStr, None))

CommandEvents ==
  { Command("b1", "u1", "/import"),
    Command("b2", "u1", "btn:import"),
    Command("b3", "u1", "/import"),
    Command("b1", "u2", "/import now"),
    Command("b1", "u1", "/done"),
    Command("b1", "u1", "btn:status"),
    Command("b1", "u1", "/start"),
    Command("b1", "u1", "thanks") }

\* The import-session commands.
NextSession ==
  \/ \E ev \in CommandEvents : ReceivePrivate(ev)
  \/ \E h \in Handler : GetBotToken(h)
  \/ \E h \in Handler : SendHelp(h)
  \/ \E h \in Handler : Status(h)
  \/ \E h \in Handler : ImportBot(h)
  \/ \E h \in Handler : ImportUser(h)
  \/ \E h \in Handler : ImportDeactivate(h)
  \/ \E h \in Handler : ImportInsert(h)
  \/ \E h \in Handler : StopRead(h)
  \/ \E h \in Handler : StopUpdate(h)
  \/ \E h \in Handler : HandlerFault(h)

SpecSession == Init /\ [][NextSession]_vars

\* A delivery of a forwarded private message, or of a command around it.
ReceiveForward(ev) ==
  /\ Len(handlers) < MaxForwards
  /\ Accept(ev)

\* Forwarded private messages of the linked user u1: a photo and a member of an album.
Forwarded(user, id, group) ==
  WithPhoto(Msg(user, "private", id, 300, NullStr, NullStr, group, Some(90)),
            << Variant("f-photo", 800, 600, Some(50000)) >>)

ForwardEvents ==
  { Command("b1", "u1", "/import"),
    Command("b1", "u1", "/done"),
    Update("b1", "message", Forwarded("u1", 51, NullStr)),
    Update("b1", "message", Forwarded("u1", 52, "mg2")) }

\* An import session with forwarded messages.
NextForward ==
  \/ \E ev \in ForwardEvents : ReceiveForward(ev)
  \/ \E h \in Handler : GetBotToken(h)
  \/ \E h \in Handler : ImportBot(h)
  \/ \E h \in Handler : ImportUser(h)
  \/ \E h \in Handler : ImportDeactivate(h)
  \/ \E h \in Handler : ImportInsert(h)
  \/ \E h \in Handler : StopRead(h)
  \/ \E h \in Handler : StopUpdate(h)
  \/ \E h \in Handler : ForwardSession(h)
  \/ \E h \in Handler : ForwardBufferInsert(h)
  \/ \E h \in Handler : ForwardRetrieve(h)
  \/ \E h \in Handler : ForwardInsertPost(h)
  \/ \E h \in Handler : ForwardCount(h)
  \/ \E h \in Handler : HandlerFault(h)

SpecForward == Init /\ [][NextForward]_vars

\* A delivery of a channel post that carries media.
ReceiveMedia(ev) ==
  /\ Len(handlers) < MaxMedia
  /\ Accept(ev)

\* Message 60 of the primary channel of b1, without media.
Channel60 == Msg("ch1", "channel", 60, 100, NullStr, NullStr, NullStr, None)

\* Declared sizes around the threshold of the size gate.
Sizes ==
  { None, Some(0), Some(TELEGRAM_MAX_FILE_SIZE - 1), Some(TELEGRAM_MAX_FILE_SIZE),
    Some(TELEGRAM_MAX_FILE_SIZE + 1), Some(TELEGRAM_MAX_FILE_SIZE + 4194304) }

\* One message per category and declared size.
SizedMedia ==
  {WithVideo(Channel60, Video("v-60", size, thumb, "video/mp4")) :
     size \in Sizes, thumb \in {NullStr, "v-60-thumb"}}
  \cup {WithDocument(Channel60, Document("d-60", size, "report.pdf", "application/pdf")) :
          size \in Sizes}
  \cup {WithPhoto(Channel60, << Variant("p-60", 800, 600, size) >>) : size \in Sizes}
  \cup {WithAudio(Channel60, Audio("a-60", size, "song.flac", "audio/mpeg")) : size \in Sizes}
  \cup {WithAnimation(Channel60, Animation("g-60", size, "g-60-thumb", "video/mp4")) :
          size \in Sizes}
  \cup {WithVoice(Channel60, Voice("o-60", size, "audio/ogg")) : size \in Sizes}

MediaFields == {"photo", "video", "document", "audio", "animation", "voice"}

\* The message whose populated media fields are exactly those of `fields`.
Populated(fields) ==
  [ Channel60 EXCEPT
      !.photo = IF "photo" \in fields
                THEN Some(<< Variant("c-photo", 11, 12, Some(13)) >>) ELSE None,
      !.video = IF "video" \in fields
                THEN Some(Video("c-video", Some(23), "c-video-thumb", "video/webm")) ELSE None,
      !.document = IF "document" \in fields
                   THEN Some(Document("c-doc", Some(33), "report.pdf", "application/pdf")) ELSE None,
      !.audio = IF "audio" \in fields
                THEN Some(Audio("c-audio", Some(43), "song.flac", "audio/mpeg")) ELSE None,
      !.animation = IF "animation" \in fields
                    THEN Some(Animation("c-anim", Some(53), "c-anim-thumb", "image/gif")) ELSE None,
      !.voice = IF "voice" \in fields
                THEN Some(Voice("c-voice", Some(63), "audio/ogg")) ELSE None ]

CombinedMedia == {Populated(fields) : fields \in SUBSET MediaFields}

\* Arrays of one to three image variants; the variant at index i is p<i>.
VariantSizes == {None, Some(0), Some(1000), Some(5000)}
VariantAt(i, size) == Variant(<<"p1", "p2", "p3">>[i], 100 * i, 10 * i, size)
VariantArrays ==
  UNION {{[i \in 1..n |-> VariantAt(i, sizes[i])] : sizes \in [1..n -> VariantSizes]} :
           n \in 1..3}
PhotoMedia == {WithPhoto(Channel60, variants) : variants \in VariantArrays}

\* Documents, audio, video, animation and voice over file names and MIME types.
FileNames == {NullStr, "report.pdf", "a.tar.gz", "db.sqlite", "notes", "README", "draft."}
MimeTypes == {NullStr, "application/pdf", "video/webm", "audio/ogg", "text/plain"}
NamedMedia ==
  {WithDocument(Channel60, Document("d-60", Some(1000), name, mime)) :
     name \in FileNames, mime \in MimeTypes}
  \cup {WithAudio(Channel60, Audio("a-60", Some(1000), name, mime)) :
          name \in FileNames, mime \in MimeTypes}
  \cup {WithVideo(Channel60, Video("v-60", Some(1000), NullStr, mime)) : mime \in MimeTypes}
  \cup {WithAnimation(Channel60, Animation("g-60", Some(1000), NullStr, mime)) :
          mime \in MimeTypes}
  \cup {WithVoice(Channel60, Voice("o-60", Some(1000), mime)) : mime \in MimeTypes}

MediaEvents ==
  {Update("b1", "channel_post", m) :
     m \in SizedMedia \cup CombinedMedia \cup PhotoMedia \cup NamedMedia}

\* Single channel posts over the media inputs: extraction, retrieval, insert.
NextExtract ==
  \/ \E ev \in MediaEvents : ReceiveMedia(ev)
  \/ \E h \in Handler : GetBotToken(h)
  \/ \E h \in Handler : PrimaryLookup(h)
  \/ \E h \in Handler : CheckExisting(h)
  \/ \E h \in Handler : Retrieve(h)
  \/ \E h \in Handler : InsertPost(h)
  \/ \E h \in Handler : UpdateSync(h)
  \/ \E h \in Handler : HandlerFault(h)

SpecExtract == Init /\ [][NextExtract]_vars

\* A video of 24 MiB posted to the primary channel of b1, and a photo.
Big61 ==
  WithVideo(Msg("ch1", "channel", 61, 110, NullStr, "big", NullStr, None),
            Video("v-61", Some(TELEGRAM_MAX_FILE_SIZE + 4194304), "v-61-thumb", "video/mp4"))
Photo62 ==
  WithPhoto(Msg("ch1", "channel", 62, 111, NullStr, NullStr, NullStr, None),
            << Variant("p-62", 800, 600, Some(50000)) >>)
\* Forwarded by u1: a document one byte over the threshold, and a photo.
ForwardedBig63 ==
  WithDocument(Msg("u1", "private", 63, 300, NullStr, NullStr, NullStr, Some(90)),
               Document("d-63", Some(TELEGRAM_MAX_FILE_SIZE + 1), "report.pdf", "application/pdf"))
ForwardedPhoto64 ==
  WithPhoto(Msg("u1", "private", 64, 300, NullStr, NullStr, NullStr, Some(91)),
            << Variant("p-64", 800, 600, Some(50000)) >>)
\* Forwarded by u1 as one album: message 65 was published after message 66.
ForwardedAlbum65 ==
  WithVideo(Msg("u1", "private", 65, 300, NullStr, NullStr, "mg3", Some(200)),
            Video("v-65", Some(TELEGRAM_MAX_FILE_SIZE + 4194304), "v-65-thumb", "video/mp4"))
ForwardedAlbum66 ==
  WithPhoto(Msg("u1", "private", 66, 300, NullStr, "second", "mg3", Some(100)),
            << Variant("p-66", 800, 600, Some(50000)) >>)

ImportEvents ==
  { Command("b1", "u1", "/import"),
    Update("b1", "channel_post", Big61),
    Update("b1", "channel_post", Photo62),
    Update("b1", "message", ForwardedBig63),
    Update("b1", "message", ForwardedPhoto64),
    Update("b1", "message", ForwardedAlbum65),
    Update("b1", "message", ForwardedAlbum66) }

\* An import of forwarded singles and albums next to direct channel posts, with the
\* timer callbacks.
NextImport ==
  \/ \E ev \in ImportEvents : ReceiveForward(ev)
  \/ \E h \in Handler : GetBotToken(h)
  \/ \E h \in Handler : PrimaryLookup(h)
  \/ \E h \in Handler : CheckExisting(h)
  \/ \E h \in Handler : Retrieve(h)
  \/ \E h \in Handler : InsertPost(h)
  \/ \E h \in Handler : UpdateSync(h)
  \/ \E h \in Handler : ImportBot(h)
  \/ \E h \in Handler : ImportUser(h)
  \/ \E h \in Handler : ImportDeactivate(h)
  \/ \E h \in Handler : ImportInsert(h)
  \/ \E h \in Handler : ForwardSession(h)
  \/ \E h \in Handler : ForwardBufferInsert(h)
  \/ \E h \in Handler : ForwardRetrieve(h)
  \/ \E h \in Handler : ForwardInsertPost(h)
  \/ \E h \in Handler : ForwardCount(h)
  \/ \E h \in Handler : HandlerFault(h)
  \/ FlushStep
  \/ Advance

SpecImport == Init /\ [][NextImport]_vars

\* Channel posts whose retrieval fails in part.  The album mg4: the file of message 70
\* cannot be fetched, the thumbnail of message 71 cannot be located.
Album70 ==
  WithVideo(Msg("ch1", "channel", 70, 120, NullStr, NullStr, "mg4", None),
            Video("gone", Some(900000), "t-70", "video/mp4"))
Album71 ==
  WithVideo(Msg("ch1", "channel", 71, 120, NullStr, "clips", "mg4", None),
            Video("v-71", Some(900000), "unlisted", "video/mp4"))
\* Single posts: a document whose fetch is reset, one whose upload is refused, and a
\* video whose thumbnail cannot be located.
Reset72 ==
  WithDocument(Msg("ch1", "channel", 72, 121, NullStr, NullStr, NullStr, None),
               Document("reset", Some(1000), "report.pdf", "application/pdf"))
Full73 ==
  WithDocument(Msg("ch1", "channel", 73, 122, NullStr, NullStr, NullStr, None),
               Document("full", Some(1000), "report.pdf", "application/pdf"))
Video74 ==
  WithVideo(Msg("ch1", "channel", 74, 123, NullStr, NullStr, NullStr, None),
            Video("v-74", Some(900000), "unlisted", "video/mp4"))

GroupEvents ==
  { Update("b1", "channel_post", Album70),
    Update("b1", "channel_post", Album71),
    Update("b1", "channel_post", Reset72),
    Update("b1", "channel_post", Full73),
    Update("b1", "channel_post", Video74) }

\* Single posts and album members of the primary channel, with the timer callbacks.
NextGroup ==
  \/ \E ev \in GroupEvents : Receive(ev)
  \/ \E h \in Handler : GetBotToken(h)
  \/ \E h \in Handler : PrimaryLookup(h)
  \/ \E h \in Handler : CheckExisting(h)
  \/ \E h \in Handler : BufferInsert(h)
  \/ \E h \in Handler : Retrieve(h)
  \/ \E h \in Handler : InsertPost(h)
  \/ \E h \in Handler : UpdateSync(h)
  \/ \E h \in Handler : HandlerFault(h)
  \/ FlushStep
  \/ Advance

SpecGroup == Init /\ [][NextGroup]_vars

\* One step of a handler of a channel post that is a group member.
MemberStep ==
  \/ \E h \in Handler : GetBotToken(h)
  \/ \E h \in Handler : PrimaryLookup(h)
  \/ \E h \in Handler : CheckExisting(h)
  \/ \E h \in Handler : BufferInsert(h)
  \/ \E h \in Handler : UpdateSync(h)

\* One step of a timer callback whose store calls all succeed.
CallbackStep ==
  \/ \E t \in Timer : TimerFire(t)
  \/ \E t \in Timer : FlushCount(t)
  \/ \E t \in Timer : FlushRead(t)
  \/ \E t \in Timer : FlushInsertPost(t)
  \/ \E t \in Timer : FlushRetrieve(t)
  \/ \E t \in Timer : FlushInsertMedia(t)
  \/ \E t \in Timer : FlushDelete(t)

\* Album members on the primary channel with no store or handler fault.
NextLive ==
  \/ \E ev \in AlbumEvents : Receive(ev)
  \/ MemberStep
  \/ CallbackStep
  \/ Advance

\* Every awaited call returns, time passes and a due timer runs its callback: the event
\* loop resumes a handler or callback whose await has settled.  Deliveries are not forced.
SpecLive ==
  /\ Init /\ [][NextLive]_vars
  /\ WF_vars(MemberStep) /\ WF_vars(CallbackStep) /\ WF_vars(Advance)

\* Channel posts delivered to the endpoint of a bot other than the one the channel is
\* configured for (b2, b3), next to a delivery to the channel's own bot (b1).
EndpointEvents ==
  { Update("b2", "channel_post", Post42),
    Update("b2", "channel_post", Album43),
    Update("b1", "channel_post", Post42),
    Update("b3", "channel_post", Linked42) }

NextEndpoint ==
  \/ \E ev \in EndpointEvents : Receive(ev)
  \/ \E h \in Handler : GetBotToken(h)
  \/ \E h \in Handler : PrimaryLookup(h)
  \/ \E h \in Handler : LinkedLookup(h)
  \/ \E h \in Handler : CheckExisting(h)
  \/ \E h \in Handler : BufferInsert(h)
  \/ \E h \in Handler : Retrieve(h)
  \/ \E h \in Handler : InsertPost(h)
  \/ \E h \in Handler : UpdateSync(h)
  \/ \E h \in Handler : HandlerFault(h)

SpecEndpoint == Init /\ [][NextEndpoint]_vars

\* A forwarded private message of u1 that carries text only.
ForwardedText(id, text) ==
  Update("b1", "message", Msg("u1", "private", id, 300, text, NullStr, NullStr, Some(90)))

\* Forwarded texts that read like the stop, status and help commands, and one that does not.
ForwardedTextEvents ==
  { Command("b1", "u1", "/import"),
    ForwardedText(81, "/done"),
    ForwardedText(82, "btn:status"),
    ForwardedText(83, "/help"),
    ForwardedText(84, "lesson one") }

\* An import session whose forwarded messages are text messages.
NextForwardText ==
  \/ \E ev \in ForwardedTextEvents : ReceiveForward(ev)
  \/ \E h \in Handler : GetBotToken(h)
  \/ \E h \in Handler : SendHelp(h)
  \/ \E h \in Handler : Status(h)
  \/ \E h \in Handler : ImportBot(h)
  \/ \E h \in Handler : ImportUser(h)
  \/ \E h \in Handler : ImportDeactivate(h)
  \/ \E h \in Handler : ImportInsert(h)
  \/ \E h \in Handler : StopRead(h)
  \/ \E h \in Handler : StopUpdate(h)
  \/ \E h \in Handler : ForwardSession(h)
  \/ \E h \in Handler : ForwardInsertPost(h)
  \/ \E h \in Handler : ForwardCount(h)
  \/ \E h \in Handler : HandlerFault(h)

SpecForwardText == Init /\ [][NextForwardText]_vars

\* ================================================================ properties
PostsBy(kind, h) == {p \in posts : p.id[1] = kind /\ p.id[2] = h}
SameMessage(h1, h2) ==
  /\ handlers[h1].ev.field = "channel_post" /\ handlers[h2].ev.field = "channel_post"
  /\ Message(h1).chat # None /\ Message(h1).chat = Message(h2).chat
  /\ Message(h1).message_id = Message(h2).message_id
FlushPostId(t) == <<"f", t[1], t[2]>>
FlushPosts(t) == {p \in posts : p.id = FlushPostId(t)}
FlushMedia(t) == {pm \in postMedia : pm.post_id = FlushPostId(t)}
EntryIds(entries) == {entries[i].id : i \in 1..Len(entries)}

\* C1: every delivery that has been received has already got its HTTP 200: the
\* acknowledgement precedes the token lookup (the first processing step) and stands
\* whatever the processing path did afterwards (ingested, ignored, duplicate, fault).
AckBeforeProcessing == \A h \in Handler : handlers[h].acked

AckWitness ==
  \E h1, h2 \in Handler :
    /\ handlers[h1].pc = "fault" /\ handlers[h1].acked
    /\ handlers[h2].outcome = "ingested" /\ handlers[h2].acked

\* C2: a channel post without a group id that is delivered again after the processing of
\* an earlier delivery of the same message has completed creates no Post in a collection
\* in which the earlier delivery created one, and no buffer entry or flush timer at all.
RedeliveryCreatesNothing ==
  \A h2 \in Handler : \A h1 \in handlers[h2].after :
    (SameMessage(h1, h2) /\ Message(h2).media_group_id = NullStr) =>
      /\ \A p1 \in PostsBy("h", h1) : \A p2 \in PostsBy("h", h2) : p1.course_id # p2.course_id
      /\ {e \in buffer : e.id[2] = h2} = {}
      /\ {t \in Timer : t[1] = h2} = {}

RedeliveryWitness ==
  \E h2 \in Handler : \E h1 \in handlers[h2].after :
    /\ SameMessage(h1, h2)
    /\ PostsBy("h", h1) # {}
    /\ handlers[h2].outcome = "duplicate"
    /\ Cardinality({p \in posts : p.telegram_message_id = Some(Message(h2).message_id)}) = 1

CourseOfMedia(pm) == (CHOOSE p \in posts : p.id = pm.post_id).course_id
\* C3: a member of a media group (collection, message id) is represented in at most one
\* PostMedia row of that collection, however often the member is delivered: no two rows
\* made from different buffer entries carry the same (collection, message id).
MemberInOnePost ==
  \A pm1, pm2 \in postMedia :
    (CourseOfMedia(pm1) = CourseOfMedia(pm2) /\ pm1.src_message_id = pm2.src_message_id)
      => pm1.src = pm2.src

\* C4: at most one Post exists for a (collection id, source message id) pair, also when
\* two deliveries of the same post are processed concurrently.
AtMostOnePostPerMessage ==
  \A p1, p2 \in posts :
    (p1.course_id = p2.course_id /\ p1.telegram_message_id # None
       /\ p1.telegram_message_id = p2.telegram_message_id) => p1 = p2

FlushNoOp(t) == FlushPosts(t) = {} /\ FlushMedia(t) = {} /\ ~flushes[t].deleted
\* C5: the flush is idempotent.  A run that finds no entry creates no Post, no PostMedia
\* and deletes nothing; a run that follows a completed run of its key with nothing
\* buffered in between finds no entry; and a run that completes leaves its key empty
\* with one parent Post and one PostMedia row per entry it read.
FlushIdempotent ==
  \A t \in Timer :
    LET f == flushes[t] IN
    /\ (f.pc = "done" /\ f.entries = <<>>) => FlushNoOp(t)
    /\ f.quiet => (f.cnt = Some(0) /\ f.pc = "done" /\ FlushNoOp(t))
    /\ f.deleted => /\ f.left = Some(0)
                    /\ Cardinality(FlushPosts(t)) = 1
                    /\ Cardinality(FlushMedia(t)) = Len(f.entries)

FlushTwiceWitness ==
  \E t1, t2 \in Timer :
    /\ t1 # t2 /\ flushes[t1].key = flushes[t2].key
    /\ flushes[t1].deleted /\ Len(flushes[t1].entries) = 2
    /\ flushes[t2].quiet /\ flushes[t2].pc = "done"
    /\ Cardinality(posts) = 1 /\ Cardinality(postMedia) = 2

\* C6: when several timers of one key fire in any order, every buffered entry yields
\* exactly one PostMedia row (no store call having failed).
OneMediaRowPerEntry ==
  faults = 0 => \A pm1, pm2 \in postMedia : pm1.src = pm2.src => pm1 = pm2

\* C7: at most one flush timer is pending per (group id, collection id) key.
OneTimerPerKey ==
  \A t1, t2 \in Timer :
    (flushes[t1].pc = "pending" /\ flushes[t2].pc = "pending"
       /\ flushes[t1].key = flushes[t2].key) => t1 = t2

Attempts(key) == {t \in Timer : flushes[t].key = key /\ flushes[t].firedAt # None}
FixedDelayTiming ==
  \A key \in DOMAIN firstArrival :
    LET due == firstArrival[key] + DelayMs IN
    /\ \A t \in Attempts(key) : flushes[t].firedAt[1] >= due
    /\ now > due => \E t \in Attempts(key) : flushes[t].firedAt = Some(due)
ReadsWholeBuffer ==
  \A t \in Timer :
    (flushes[t].pc = "read" /\ flushes'[t].pc = "insertPost") =>
      EntryIds(flushes'[t].entries) = {e.id : e \in KeyRows(flushes[t].key)}
\* C8: the debounce is fixed-delay.  No flush of a key is attempted before 5 s after the
\* key's first arrival, and one is attempted exactly then, whatever arrives inside the
\* window; and a flush that reads the buffer reads every entry buffered under its key.
FixedDelay == []FixedDelayTiming /\ [][ReadsWholeBuffer]_vars

FixedDelayWitness ==
  \E t1, t2 \in Timer :
    /\ flushes[t1].key = flushes[t2].key
    /\ flushes[t1].due = DelayMs /\ flushes[t2].due > DelayMs
    /\ flushes[t1].firedAt = Some(DelayMs)
    /\ Len(flushes[t1].entries) = 2
    /\ now > DelayMs

\* C9: a flush that runs to completion over the n >= 1 entries it read has created one
\* parent Post of kind media_group with media_count n and n PostMedia rows under it, the
\* row of order index k-1 made from the k-th entry in ascending message-id order, and
\* has left no buffer entry under its key.
FlushResult ==
  \A t \in Timer :
    LET f == flushes[t]
        n == Len(f.entries)
    IN f.deleted =>
         /\ n >= 1
         /\ \E p \in posts :
              /\ FlushPosts(t) = {p}
              /\ p.media_type = "media_group" /\ p.media_count = n
              /\ p.course_id = f.key.course /\ p.media_group_id = f.key.group
         /\ Cardinality(FlushMedia(t)) = n
         /\ \A k \in 1..n :
              \E pm \in FlushMedia(t) : pm.order_index = k - 1 /\ pm.src = f.entries[k].id
         /\ \A k \in 1..(n - 1) :
              f.entries[k].telegram_message_id <= f.entries[k + 1].telegram_message_id
         /\ f.left = Some(0)

FlushResultWitness ==
  \E t \in Timer :
    /\ flushes[t].deleted /\ Len(flushes[t].entries) = 2
    /\ flushes[t].entries[1].id[2] > flushes[t].entries[2].id[2]
    /\ flushes[t].entries[1].telegram_message_id < flushes[t].entries[2].telegram_message_id

\* C10: at most one ImportSession row is active per external user id.
OneActiveSessionPerUser ==
  \A x, y \in sessions :
    (x.telegram_user_id = y.telegram_user_id /\ x.is_active /\ y.is_active) => x = y

PrimaryCourses(chat) ==
  {b.course_id : b \in {r \in SeqToSet(BotRows) :
                          r.channel_id = chat /\ r.is_active /\ r.course_id # NullStr}}
LinkedCourses(chat, active) ==
  {l.course_id : l \in {r \in SeqToSet(LinkedChatRows) :
                          r.telegram_chat_id = chat /\ r.is_active = active}}
ChannelPost(h) == handlers[h].ev.field = "channel_post" /\ Message(h).chat # None
Alone(h) ==
  \A h2 \in Handler : h2 # h => (h2 \in handlers[h].after \/ h \in handlers[h2].after)
Sequential == \A h \in Handler : Alone(h)
\* C12: a channel post without a group id whose chat has no primary binding creates at
\* most one Post per collection and none in a collection bound by inactive rows only;
\* once its processing has ended without a fault every collection bound by an active
\* LinkedChat row of the chat holds a Post with the message id, and exactly one when
\* the deliveries were processed one after the other.
LinkedFanOut ==
  \A h \in Handler :
    (ChannelPost(h) /\ PrimaryCourses(Message(h).chat[1].id) = {}
       /\ Message(h).media_group_id = NullStr) =>
      LET chat == Message(h).chat[1].id
          id == Message(h).message_id
      IN
      /\ \A p1, p2 \in PostsBy("h", h) : p1.course_id = p2.course_id => p1 = p2
      /\ \A p \in PostsBy("h", h) : p.course_id \in LinkedCourses(chat, TRUE)
      /\ handlers[h].outcome \in {"ingested", "duplicate"} =>
           \A c \in LinkedCourses(chat, TRUE) :
             /\ ExistingPosts(c, id) # {}
             /\ Sequential => Cardinality(ExistingPosts(c, id)) = 1

LinkedFanOutWitness ==
  \E h \in Handler :
    /\ ChannelPost(h) /\ handlers[h].outcome = "duplicate" /\ handlers[h].after = {}
    /\ {p.course_id : p \in PostsBy("h", h)} = {"cA", "cB"}
    /\ Cardinality(PostsBy("h", h)) = 2
    /\ LinkedCourses(Message(h).chat[1].id, FALSE) = {"cC"}
    /\ synced = {"l1", "l2"}

PrivateText(h) ==
  /\ handlers[h].ev.field = "message" /\ Message(h).chat # None
  /\ Message(h).chat[1].type = "private" /\ Truthy(Message(h).text)
Cmd(h) == NormalizeCommand(Message(h).text)
IsStart(h) == PrivateText(h) /\ StartsWithImport(Cmd(h))
BotCourses(botId) ==
  {b.course_id : b \in {r \in SeqToSet(BotRows) :
                          r.id = botId /\ r.is_active /\ r.course_id # NullStr}}
KnownAccount(user) == \E u \in SeqToSet(UserRows) : u.telegram_id = user
Moves(h, from, to) == handlers[h].pc = from /\ handlers'[h].pc = to
StartEffect ==
  \A h \in Handler : IsStart(h) =>
    /\ Moves(h, "importDeactivate", "importInsert") =>
         /\ Cardinality(sessions') = Cardinality(sessions)
         /\ \A x \in sessions :
              IF x.telegram_user_id = User(h) /\ x.is_active
              THEN [x EXCEPT !.is_active = FALSE, !.completed_at = Some(now)] \in sessions'
              ELSE x \in sessions'
    /\ Moves(h, "importInsert", "done") =>
         \E new \in sessions' :
           /\ sessions' = sessions \cup {new}
           /\ new.id \notin {x.id : x \in sessions}
           /\ new.telegram_user_id = User(h) /\ new.is_active /\ new.message_count = 0
           /\ new.course_id \in BotCourses(handlers[h].ev.botId)
           /\ KnownAccount(User(h))
           /\ handlers'[h].reply = Some([text |-> "import started", count |-> None])
           /\ Alone(h) =>
                {x \in sessions' : x.telegram_user_id = User(h) /\ x.is_active} = {new}
\* C13: a start command of a linked user to a bot with a bound collection X first marks
\* every Active session of the user Completed with a timestamp and leaves every other
\* row as it was, then inserts one new row, Active, bound to X, counter 0, and confirms;
\* when no other command was processed at the same time the new row is then the user's
\* only Active session.
StartReplacesSession == [][StartEffect]_vars

StartReplacesWitness ==
  \E h \in Handler : \E x, y \in sessions :
    /\ IsStart(h) /\ handlers[h].pc = "done" /\ handlers[h].after # {}
    /\ y.id = <<"s", h, 0>> /\ y.is_active /\ y.course_id = "cB" /\ y.message_count = 0
    /\ x.course_id = "cA" /\ ~x.is_active /\ x.completed_at # None
    /\ ActiveSessions("u1") = {y}

StartRefused(h) ==
  IsStart(h) /\ (BotCourses(handlers[h].ev.botId) = {} \/ ~KnownAccount(User(h)))
RefusalEffect ==
  \A h \in Handler : (StartRefused(h) /\ handlers'[h] # handlers[h]) =>
    /\ sessions' = sessions
    /\ handlers'[h].pc = "done" =>
         /\ handlers[h].reply = None
         /\ handlers'[h].reply \in {Some([text |-> "no course for this bot", count |-> None]),
                                    Some([text |-> "account not linked", count |-> None])}
\* C14: no step of a start command whose bot has no bound collection, or whose user maps
\* to no platform account, changes the session table, and the command ends with one
\* reply, which is the explanatory failure message.
StartRefusedNoChange == [][RefusalEffect]_vars

StartRefusedWitness ==
  \E h1, h2 \in Handler :
    /\ StartRefused(h1) /\ handlers[h1].pc = "done" /\ handlers[h1].ev.botId = "b3"
    /\ handlers[h1].reply = Some([text |-> "no course for this bot", count |-> None])
    /\ h2 \in handlers[h1].after /\ User(h2) = User(h1)
    /\ \E x \in ActiveSessions(User(h1)) : x.id = <<"s", h2, 0>> /\ x.message_count = 0

NoActiveImport == Some([text |-> "no active import", count |-> None])
StatusStopEffect ==
  \A h \in Handler : PrivateText(h) =>
    /\ (Cmd(h) = "/status" /\ handlers'[h] # handlers[h]) =>
         /\ sessions' = sessions
         /\ Moves(h, "status", "done") =>
              IF ActiveSessions(User(h)) = {}
              THEN handlers'[h].reply = NoActiveImport
              ELSE \E x \in ActiveSessions(User(h)) :
                     handlers'[h].reply =
                       Some([text |-> x.course_id, count |-> Some(x.message_count)])
    /\ (Cmd(h) \in {"/done", "/stop"} /\ handlers[h].pc = "stop"
          /\ handlers'[h].pc \notin {"stop", "fault"}) =>
         /\ sessions' = sessions
         /\ IF ActiveSessions(User(h)) = {}
            THEN handlers'[h].pc = "done" /\ handlers'[h].reply = NoActiveImport
            ELSE handlers'[h].pc = "stopUpdate" /\ handlers'[h].reply = None
\* C16: no step of a status command, and no stop command that finds no Active session,
\* changes the session table; without an Active session both reply "no active import",
\* and with one the status reply carries that session's collection and counter.
StatusStopNoChange == [][StatusStopEffect]_vars

StatusStopWitness ==
  \E h \in Handler :
    /\ PrivateText(h) /\ Cmd(h) = "/status" /\ handlers[h].pc = "done"
    /\ handlers[h].reply = Some([text |-> "cA", count |-> Some(0)])
    /\ \E x \in ActiveSessions(User(h)) : x.course_id = "cA" /\ x.message_count = 0

Recognized(text) == text \in {"/status", "/done", "/stop"} \/ StartsWithImport(text)
\* C17: a private text message that is the help command or no recognized command, from a
\* user without a session, is answered with the usage text once its processing has ended.
UsageReply ==
  \A h \in Handler :
    ( /\ PrivateText(h) /\ ~Recognized(Cmd(h)) /\ ~isForwarded(Message(h))
      /\ handlers[h].pc = "done" /\ handlers[h].outcome # "no bot"
      /\ {x \in sessions : x.telegram_user_id = User(h)} = {} )
    => handlers[h].reply = Some([text |-> "usage", count |-> None])

SessionsKept ==
  \A x \in sessions :
    /\ \E y \in sessions' : y.id = x.id
    /\ ~x.is_active => \A y \in sessions' : y.id = x.id => ~y.is_active /\ y.completed_at # None
\* C20: no step removes a session row or makes a Completed row Active again: once a row
\* has active = false it keeps it, with a completion timestamp, in every later state.
CompletedIsTerminal == [][SessionsKept]_vars

CompletedIsTerminalWitness ==
  \E x, y \in sessions :
    /\ x.telegram_user_id = y.telegram_user_id /\ x.course_id = "cA" /\ y.course_id = "cA"
    /\ ~x.is_active /\ y.is_active /\ x.id # y.id
    /\ \A h \in Handler : handlers[h].pc = "done"

IsStop(h) == PrivateText(h) /\ Cmd(h) \in {"/done", "/stop"}
IsForward(h) ==
  /\ handlers[h].ev.field = "message" /\ Message(h).chat # None
  /\ Message(h).chat[1].type = "private" /\ ~Truthy(Message(h).text)
  /\ isForwarded(Message(h))
StopEffect ==
  \A h \in Handler : (IsStop(h) /\ Moves(h, "stopUpdate", "done")) =>
    LET s == handlers[h].session[1] IN
    /\ Cardinality(sessions') = Cardinality(sessions)
    /\ \A x \in sessions :
         IF x.id = s.id
         THEN [x EXCEPT !.is_active = FALSE, !.completed_at = Some(now)] \in sessions'
         ELSE x \in sessions'
    /\ handlers'[h].reply = Some([text |-> "import finished", count |-> Some(s.message_count)])
    /\ (\A x \in ActiveSessions(User(h)) : x.id = s.id) =>
         {x \in sessions' : x.telegram_user_id = User(h) /\ x.is_active} = {}
ScenarioDRun ==
  /\ Len(handlers) = 3
  /\ \A h \in 1..3 : handlers[h].pc = "done" /\ User(h) = "u1"
  /\ IsStart(1) /\ IsForward(2) /\ Message(2).media_group_id = NullStr /\ IsStop(3)
  /\ handlers[2].after = {1} /\ handlers[3].after = {1, 2}
ScenarioD ==
  ScenarioDRun =>
    /\ handlers[3].reply = Some([text |-> "import finished", count |-> Some(1)])
    /\ \E p \in posts : posts = {p} /\ p.course_id = "cA" /\ p.id = <<"h", 2, 1>>
    /\ \E x \in sessions :
         /\ sessions = {x} /\ ~x.is_active /\ x.completed_at # None
         /\ x.message_count = 1 /\ x.course_id = "cA"
\* C15: a stop command that found an Active session marks that row Completed with a
\* timestamp, leaves the other rows alone, replies with the row's counter and, the row
\* being the user's only Active session, leaves the user with none; and in Scenario D
\* (start, one forwarded photo, stop, one after the other) the stop reply reports 1 and
\* the session's collection holds one Post.
StopCompletes == []ScenarioD /\ [][StopEffect]_vars

StopCompletesWitness ==
  /\ ScenarioDRun
  /\ handlers[3].reply = Some([text |-> "import finished", count |-> Some(1)])
  /\ Cardinality(posts) = 1 /\ ActiveSessions("u1") = {}

InFlight(id) ==
  {h \in Handler : handlers[h].session # None /\ handlers[h].session[1].id = id}
Counted(id) == {h \in Handler : handlers[h].counted = Some(id)}
Distinct(hs) == \A h1, h2 \in hs : h1 # h2 => Message(h1).message_id # Message(h2).message_id
\* C18: once the forwarded messages that found a session have all been processed (each
\* a different message, no store call having failed), the session's counter equals
\* their number.
CounterMatchesForwards ==
  \A x \in sessions :
    (faults = 0 /\ InFlight(x.id) = {} /\ Distinct(Counted(x.id)))
      => x.message_count = Cardinality(Counted(x.id))

ForwardIgnoredState ==
  \A h \in Handler : handlers[h].outcome = "no session" =>
    /\ PostsBy("h", h) = {} /\ {e \in buffer : e.id[2] = h} = {}
    /\ {t \in Timer : t[1] = h} = {} /\ handlers[h].counted = None
ForwardIgnoredStep ==
  \A h \in Handler :
    (IsForward(h) /\ handlers[h].pc = "forward" /\ handlers'[h].pc \notin {"forward", "fault"}) =>
      IF ActiveSessions(User(h)) = {}
      THEN /\ handlers'[h].pc = "done" /\ handlers'[h].outcome = "no session"
           /\ UNCHANGED <<posts, buffer, flushes, sessions>>
      ELSE handlers'[h].pc # "done"
\* C19: a forwarded private message whose user has no Active session at the lookup
\* (none ever, or only Completed ones) ends there: it creates no Post, no buffer entry,
\* no flush timer and changes no session row.
ForwardWithoutSession == []ForwardIgnoredState /\ [][ForwardIgnoredStep]_vars

ForwardWithoutSessionWitness ==
  \E h \in Handler : \E x \in sessions :
    /\ IsForward(h) /\ handlers[h].outcome = "no session"
    /\ x.telegram_user_id = User(h) /\ ~x.is_active /\ x.message_count = 0
    /\ posts = {} /\ buffer = {}

\* The media field the extractor reads for its category.
FieldOf(m, mediaType) ==
  CASE mediaType = "video" -> m.video[1]
    [] mediaType = "document" -> m.document[1]
    [] mediaType = "audio" -> m.audio[1]
    [] mediaType = "animation" -> m.animation[1]
    [] mediaType = "voice" -> m.voice[1]
Over(size) == size # None /\ size[1] >= TELEGRAM_MAX_FILE_SIZE + 1
SizeGate(m) ==
  LET md == extractMediaData(m) IN
  /\ md.media_type \in {"video", "document"} =>
       LET field == FieldOf(m, md.media_type) IN
       IF Over(field.file_size)
       THEN /\ md.has_error /\ Truthy(md.error_message)
            /\ md.file_id = NullStr /\ md.thumbnail_file_id = NullStr
       ELSE /\ ~md.has_error /\ md.error_message = NullStr
            /\ md.file_id = field.file_id
  /\ md.media_type \in {"image", "audio", "animation", "voice"} =>
       ~md.has_error /\ md.error_message = NullStr /\ md.file_id # NullStr
\* C21: for every message delivered, the extractor flags a video or document exactly
\* when its declared size is 20*1024*1024 + 1 bytes or more: a flagged record has a
\* message and no file or thumbnail reference, an unflagged one (size 20*1024*1024,
\* smaller, or absent) keeps its file reference; image, audio, animation and voice are
\* never flagged.  The handler goes to the retrieval exactly for unflagged records.
SizeGateBoundary ==
  \A h \in Handler :
    /\ SizeGate(Message(h))
    /\ handlers[h].pc = "download" => ~extractMediaData(Message(h)).has_error
    /\ handlers[h].pc = "insertPost" =>
         (handlers[h].fetched = {} <=>
            (extractMediaData(Message(h)).has_error
               \/ extractMediaData(Message(h)).media_type = NullStr))
SizeGateWitness ==
  \E h \in Handler :
    /\ Message(h).video # None /\ Message(h).photo = None
    /\ Message(h).video[1].file_size = Some(20 * 1024 * 1024)
    /\ handlers[h].pc = "insertPost"
    /\ handlers[h].fetched # {} /\ ~handlers[h].hasError

PopulatedFields(m) ==
  {f \in {"photo", "video", "document", "audio", "animation", "voice"} : m[f] # None}
Precedence == <<"photo", "video", "document", "audio", "animation", "voice">>
FirstPopulated(m) ==
  Precedence[CHOOSE i \in 1..6 :
    /\ Precedence[i] \in PopulatedFields(m)
    /\ \A j \in 1..(i - 1) : Precedence[j] \notin PopulatedFields(m)]
CategoryOf(field) == IF field = "photo" THEN "image" ELSE field
OnlyField(m, field) ==
  [f \in DOMAIN m |->
     IF f \in {"photo", "video", "document", "audio", "animation", "voice"} /\ f # field
     THEN None ELSE m[f]]
SavedBy(h) == {p \in posts : p.id[1] = "h" /\ p.id[2] = h}
\* C22: for every message delivered, whatever subset of the six media fields it
\* populates, the extractor's category is that of the first populated field in the order
\* image, video, document, audio, animation, voice, and its record is the one it returns
\* for the message with every other media field removed; with no media field the record
\* has every field null and no error.  The Post saved carries that category.
OneCategoryByPrecedence ==
  \A h \in Handler :
    LET m == Message(h)
        md == extractMediaData(m)
    IN /\ PopulatedFields(m) = {} =>
            /\ md.media_type = NullStr /\ md.file_id = NullStr /\ md.file_size = None
            /\ md.file_name = NullStr /\ md.mime_type = NullStr /\ md.width = None
            /\ md.height = None /\ md.duration = None /\ md.thumbnail_file_id = NullStr
            /\ ~md.has_error /\ md.error_message = NullStr
       /\ PopulatedFields(m) # {} =>
            /\ md.media_type = CategoryOf(FirstPopulated(m))
            /\ md = extractMediaData(OnlyField(m, FirstPopulated(m)))
       /\ \A p \in SavedBy(h) :
            p.media_type = (IF PopulatedFields(m) = {} THEN NullStr
                            ELSE CategoryOf(FirstPopulated(m)))
OneCategoryWitness ==
  \E h \in Handler :
    /\ Cardinality(PopulatedFields(Message(h))) = 6
    /\ \E p \in SavedBy(h) : p.media_type = "image" /\ p.storage_path # None

ReportedSize(variant) == IF variant.file_size = None THEN 0 ELSE variant.file_size[1]
\* The index of the earliest variant among those of the largest reported size.
EarliestLargest(variants) ==
  CHOOSE k \in 1..Len(variants) :
    /\ \A j \in 1..Len(variants) : ReportedSize(variants[j]) <= ReportedSize(variants[k])
    /\ \A j \in 1..(k - 1) : ReportedSize(variants[j]) < ReportedSize(variants[k])
\* C23: for every delivered message with a non-empty image array, the extractor's file
\* reference, width and height are those of the earliest-listed variant among the ones
\* with the largest reported size (a missing size counts as 0); that file is the one
\* retrieved, and the Post saved carries its width and height.
LargestVariantSelected ==
  \A h \in Handler :
    Message(h).photo # None =>
      LET variants == Message(h).photo[1]
          best == variants[EarliestLargest(variants)]
          md == extractMediaData(Message(h))
      IN /\ md.media_type = "image"
         /\ md.file_id = best.file_id
         /\ md.width = Some(best.width) /\ md.height = Some(best.height)
         /\ handlers[h].fetched \subseteq {best.file_id}
         /\ \A p \in SavedBy(h) :
              /\ p.telegram_media_width = Some(best.width)
              /\ p.telegram_media_height = Some(best.height)
              /\ p.storage_path # None /\ p.storage_path[1].file = best.file_id
LargestVariantWitness ==
  \E h \in Handler :
    /\ Message(h).photo # None /\ Len(Message(h).photo[1]) = 3
    /\ Message(h).photo[1][1].file_size = Some(1000)
    /\ Message(h).photo[1][2].file_size = Some(5000)
    /\ Message(h).photo[1][3].file_size = Some(5000)
    /\ \E p \in SavedBy(h) : p.storage_path[1].file = "p2"

HasDot(chars) == \E i \in 1..Len(chars) : chars[i] = "."
\* The extension of a file name: what follows its last dot, when it has a dot.
Extension(fileName) ==
  IF Truthy(fileName) /\ HasDot(Chars(fileName)) THEN LastSegment(Chars(fileName)) ELSE <<>>
ByPrecedence(mimeType, fileName, mediaType) ==
  IF Extension(fileName) # <<>> /\ Len(Extension(fileName)) <= 5 THEN Extension(fileName)
  ELSE IF mimeType \in DOMAIN MimeMap THEN MimeMap[mimeType]
  ELSE DefaultExtension(mediaType)
\* C25: the storage key of every file stored has the extension given by the precedence
\* file name extension (at most 5 characters) > MIME table > category default.
ExtensionPrecedence ==
  \A h \in Handler :
    LET md == extractMediaData(Message(h)) IN
    handlers[h].storagePath # None =>
      handlers[h].storagePath[1].ext = ByPrecedence(md.mime_type, md.file_name, md.media_type)

Oversized(m) ==
  /\ m.photo = None
  /\ \/ m.video # None /\ Over(m.video[1].file_size)
     \/ m.video = None /\ m.document # None /\ Over(m.document[1].file_size)
SizeExceeded == {"too big: upload the video manually", "too big: upload the file manually"}
FlaggedBySize(row) ==
  /\ row.has_error /\ row.error_message \in SizeExceeded
  /\ row.storage_path = None /\ row.thumbnail_storage_path = None
\* The message a buffered entry was made from.
SourceOf(entryId) == Message(entryId[2])
\* C24: a video or document above 20 MiB is never handed to the retrieval pipeline, for
\* its file or for its thumbnail: not by the handler of a channel post, not by the
\* handler of a forwarded message, not by a flush that read its buffered entry; and the
\* Post or PostMedia row made for it has the error flag, the size-exceeded message and
\* neither a storage nor a thumbnail reference.
OversizedNeverRetrieved ==
  /\ \A h \in Handler :
       Oversized(Message(h)) =>
         /\ handlers[h].fetched = {}
         /\ handlers[h].pc \notin {"download", "fwdDownload"}
         /\ \A p \in SavedBy(h) : FlaggedBySize(p)
  /\ \A t \in Timer : \A x \in flushes[t].fetched : ~Oversized(SourceOf(x[1]))
  /\ \A t \in Timer : flushes[t].pc = "download" =>
       ~Oversized(SourceOf(flushes[t].entries[flushes[t].i].id))
  /\ \A pm \in postMedia : Oversized(SourceOf(pm.src)) => FlaggedBySize(pm)
OversizedWitness ==
  /\ \E h \in Handler :
       /\ handlers[h].ev.field = "channel_post" /\ Oversized(Message(h))
       /\ SavedBy(h) # {} /\ handlers[h].outcome = "ingested"
  /\ \E pm \in postMedia : Oversized(SourceOf(pm.src)) /\ pm.media_type = "video"

EntriesOf(t) == {flushes[t].entries[i] : i \in 1..Len(flushes[t].entries)}
\* The caption of the entry with the smallest message id among those that have one.
LeadingCaption(entries) ==
  LET captioned == {e \in entries : e.caption # NullStr /\ e.caption # ""} IN
  IF captioned = {} THEN {""}
  ELSE {e.caption : e \in {x \in captioned :
          \A y \in captioned : x.telegram_message_id <= y.telegram_message_id}}
GroupCaption ==
  \A t \in Timer : \A p \in FlushPosts(t) : p.text_content \in LeadingCaption(EntriesOf(t))
\* C29: the parent Post a flush created has the caption of the first captioned entry in
\* message-id order (empty when there is none) and, as publish time, the earliest
\* timestamp among the entries the flush read.
GroupCaptionAndTime ==
  /\ GroupCaption
  /\ \A t \in Timer : \A p \in FlushPosts(t) :
       \A e \in EntriesOf(t) : p.published_at <= e.message_date

\* The file the extractor names cannot be retrieved.
FailedFile(m) == extractMediaData(m).file_id \in UnavailableFiles
DownloadFailed(row) ==
  /\ row.has_error /\ row.error_message = "download failed" /\ row.storage_path = None
Stored(row) == ~row.has_error /\ row.storage_path # None
RetrievalOutcome ==
  /\ \A pm \in postMedia :
       /\ FailedFile(SourceOf(pm.src)) => DownloadFailed(pm)
       /\ ~FailedFile(SourceOf(pm.src)) => Stored(pm)
  /\ \A t \in Timer :
       flushes[t].deleted =>
         /\ \A k \in 1..Len(flushes[t].entries) :
              \E pm \in FlushMedia(t) :
                pm.src = flushes[t].entries[k].id /\ pm.order_index = k - 1
         /\ \A p \in FlushPosts(t) : p.media_count = Len(flushes[t].entries) /\ ~p.has_error
         /\ FlushPosts(t) # {}
         /\ flushes[t].left = Some(0)
  /\ \A h \in Handler :
       (handlers[h].outcome = "ingested" /\ Message(h).media_group_id = NullStr) =>
         /\ SavedBy(h) # {}
         /\ \A p \in SavedBy(h) :
              IF FailedFile(Message(h)) THEN DownloadFailed(p) ELSE Stored(p)
RetrievalStep ==
  /\ \A h \in Handler :
       (handlers[h].pc = "download" /\ handlers'[h] # handlers[h]) =>
         /\ handlers'[h].pc = "insertPost" /\ faults' = faults
         /\ handlers'[h].hasError = FailedFile(Message(h))
  /\ \A t \in Timer :
       (flushes[t].pc = "download" /\ flushes'[t] # flushes[t]) =>
         /\ flushes'[t].pc = "insertMedia" /\ faults' = faults
         /\ flushes'[t].hasError = FailedFile(SourceOf(flushes[t].entries[flushes[t].i].id))
\* C26: a retrieval never ends a handler or a flush in a fault: whether the lookup, the
\* fetch or the upload fails, the step goes on to the insert with the item flagged.  A
\* PostMedia row is errored (flag, message, no storage reference) exactly when the file
\* of its own entry could not be retrieved; a flush that ran to completion has made a
\* row for every entry it read, a parent Post with member count n, and has left no
\* buffer entry; a single post whose file could not be retrieved is still saved, errored.
RetrievalNeverRaises == []RetrievalOutcome /\ [][RetrievalStep]_vars
RetrievalNeverRaisesWitness ==
  \E t \in Timer :
    /\ flushes[t].deleted /\ Len(flushes[t].entries) = 2
    /\ \E pm \in FlushMedia(t) : pm.order_index = 0 /\ DownloadFailed(pm)
    /\ \E pm \in FlushMedia(t) : pm.order_index = 1 /\ Stored(pm)
    /\ \A p \in FlushPosts(t) : p.media_count = 2

\* The file can be retrieved, its thumbnail cannot.
ThumbnailFailed(m) ==
  /\ ~extractMediaData(m).has_error /\ ~FailedFile(m)
  /\ extractMediaData(m).thumbnail_file_id \in UnavailableFiles
WithoutThumbnail(row) == Stored(row) /\ row.thumbnail_storage_path = None
ThumbnailOutcome ==
  /\ \A h \in Handler :
       /\ \A p \in SavedBy(h) :
            /\ ThumbnailFailed(Message(h)) => WithoutThumbnail(p)
            /\ p.has_error => FailedFile(Message(h)) \/ Oversized(Message(h))
       /\ (ThumbnailFailed(Message(h)) /\ handlers[h].outcome = "ingested"
             /\ Message(h).media_group_id = NullStr) => SavedBy(h) # {}
  /\ \A pm \in postMedia :
       /\ ThumbnailFailed(SourceOf(pm.src)) => WithoutThumbnail(pm)
       /\ pm.has_error => FailedFile(SourceOf(pm.src)) \/ Oversized(SourceOf(pm.src))
  /\ \A t \in Timer :
       flushes[t].deleted =>
         \A k \in 1..Len(flushes[t].entries) :
           ThumbnailFailed(SourceOf(flushes[t].entries[k].id)) =>
             \E pm \in FlushMedia(t) : pm.src = flushes[t].entries[k].id
ThumbnailStep ==
  /\ \A h \in Handler :
       (handlers[h].pc = "download" /\ ThumbnailFailed(Message(h))
          /\ handlers'[h] # handlers[h]) =>
         /\ handlers'[h].pc = "insertPost" /\ ~handlers'[h].hasError
         /\ handlers'[h].storagePath # None /\ handlers'[h].thumbnailPath = None
  /\ \A t \in Timer :
       (flushes[t].pc = "download"
          /\ ThumbnailFailed(SourceOf(flushes[t].entries[flushes[t].i].id))
          /\ flushes'[t] # flushes[t]) =>
         /\ flushes'[t].pc = "insertMedia" /\ ~flushes'[t].hasError
         /\ flushes'[t].storagePath # None /\ flushes'[t].thumbnailPath = None
\* C27: when the thumbnail of an item cannot be retrieved while its file can, the
\* retrieval step goes on to the insert with the storage reference set, no error and no
\* thumbnail reference, and the Post or PostMedia row is created so; a row is flagged
\* errored only when its own file failed or was oversized, never for its thumbnail.
ThumbnailBestEffort == []ThumbnailOutcome /\ [][ThumbnailStep]_vars
ThumbnailBestEffortWitness ==
  /\ \E h \in Handler :
       /\ Message(h).media_group_id = NullStr /\ ThumbnailFailed(Message(h))
       /\ \E p \in SavedBy(h) : WithoutThumbnail(p)
  /\ \E pm \in postMedia : ThumbnailFailed(SourceOf(pm.src)) /\ WithoutThumbnail(pm)

ChangedHandlers == {h \in Handler : handlers'[h] # handlers[h]}
ChangedTimers == {t \in Timer : flushes'[t] # flushes[t]}
\* A step in which a store call rejects.
FaultContained ==
  faults' # faults =>
    /\ UNCHANGED <<posts, postMedia, buffer, sessions, synced>>
    /\ Len(handlers') = Len(handlers) /\ DOMAIN flushes' = DOMAIN flushes
    /\ Cardinality(ChangedHandlers) + Cardinality(ChangedTimers) = 1
    /\ \A h \in ChangedHandlers :
         /\ handlers'[h].pc = "fault" /\ handlers'[h].acked = handlers[h].acked
         /\ handlers'[h].outcome = "logged"
    /\ \A t \in ChangedTimers : flushes'[t].pc = "fault"
\* Whatever faulted before, a delivery can be received and every handler or callback
\* that has not finished has its next step enabled.
StillServing ==
  /\ \A h \in Handler : handlers[h].acked
  /\ Len(handlers) < MaxEvents => ENABLED (\E ev \in AlbumEvents : Receive(ev))
  /\ \A h \in Handler :
       handlers[h].pc \notin Terminal =>
         ENABLED (GetBotToken(h) \/ PrimaryLookup(h) \/ CheckExisting(h)
                    \/ BufferInsert(h) \/ UpdateSync(h))
  /\ \A t \in Timer :
       flushes[t].pc \notin {"pending", "done", "fault"} =>
         ENABLED (FlushCount(t) \/ FlushRead(t) \/ FlushInsertPost(t) \/ FlushRetrieve(t)
                    \/ FlushInsertMedia(t) \/ FlushDelete(t))
\* C28: a rejected store call inside a handler or inside a timer callback ends that one
\* handler or callback as logged and changes nothing else: no table, no other handler,
\* no other timer, no acknowledgement.  Every delivery stays acknowledged, deliveries
\* are still received afterwards, and every unfinished handler and callback can go on.
FaultsAreContained == []StillServing /\ [][FaultContained]_vars
FaultsAreContainedWitness ==
  \E h1, h2 \in Handler :
    /\ handlers[h1].pc = "fault" /\ handlers[h1].acked
    /\ h1 \in handlers[h2].after
    /\ handlers[h2].acked /\ handlers[h2].outcome = "ingested"
    /\ \E t \in Timer : t[1] = h2 /\ flushes[t].deleted

\* C30: every Post of media kind group has member count greater than 1.
GroupPostsHaveSeveralMembers ==
  \A p \in posts : p.media_type = "media_group" => p.media_count > 1

DeletingFlush(t) == flushes[t].pc = "delete" /\ flushes'[t].deleted
MembersOf(t) == {pm.src_message_id : pm \in FlushMedia(t)}
NoMemberLostStep ==
  \A t \in Timer :
    DeletingFlush(t) =>
      \A e \in buffer \ buffer' : e.telegram_message_id \in MembersOf(t)
\* C31: no buffered group member is lost.  Every buffer entry that a flush deletes has a
\* PostMedia row of its message made by that same flush, also an entry that was appended
\* for the key after the flush read the buffer and before its final delete for the key.
NoMemberLost == [][NoMemberLostStep]_vars

DistinctMessageIds(entries) == {entries[i].telegram_message_id : i \in 1..Len(entries)}
TimerOf(entry) == <<entry.id[2], entry.id[3]>>
FirstFlush(t) ==
  \A t2 \in Timer : (t2 # t /\ flushes[t2].key = flushes[t].key) => flushes[t2].pc = "pending"
BufferedBeforeFire(t) ==
  \A i \in 1..Len(flushes[t].entries) :
    flushes[TimerOf(flushes[t].entries[i])].due - DelayMs < flushes[t].firedAt[1]
\* C32: when a group member is delivered more than once before the first flush of its
\* key fires, the parent Post made by that flush has a member count, and a number of
\* PostMedia rows, equal to the number of distinct message ids buffered.
CountsDistinctMembers ==
  \A t \in Timer :
    (flushes[t].deleted /\ FirstFlush(t) /\ BufferedBeforeFire(t)) =>
      LET n == Cardinality(DistinctMessageIds(flushes[t].entries)) IN
      /\ \A p \in FlushPosts(t) : p.media_count = n
      /\ Cardinality(FlushMedia(t)) = n

PossibleEntries == {<<"e", h, 1>> : h \in 1..MaxEvents}
Buffered(id) == \E e \in buffer : e.id = id
RemovedByFlush ==
  \A e \in buffer \ buffer' :
    \E t \in Timer :
      /\ DeletingFlush(t)
      /\ flushes[t].key = Key(e.media_group_id, e.course_id)
\* C33: with timers firing and no store or handler fault, every entry appended to the
\* buffer is eventually removed from it, and only by the delete of a flush of its key;
\* this includes a member that arrives after an earlier flush of the key has completed.
EveryEntryFlushed ==
  /\ \A id \in PossibleEntries : Buffered(id) ~> ~Buffered(id)
  /\ [][RemovedByFlush]_vars

EveryEntryFlushedWitness ==
  \E t1, t2 \in Timer :
    /\ t1 # t2 /\ flushes[t1].key = flushes[t2].key
    /\ flushes[t1].deleted /\ flushes[t2].deleted
    /\ flushes[t1].firedAt[1] < flushes[t2].firedAt[1]
    /\ EntryIds(flushes[t1].entries) = {<<"e", t1[1], t1[2]>>}
    /\ EntryIds(flushes[t2].entries) = {<<"e", t2[1], t2[2]>>}
    /\ buffer = {}

PrimaryBots(chat) ==
  {b \in SeqToSet(BotRows) : b.channel_id = chat /\ b.is_active /\ b.course_id # NullStr}
Endpoint(h) == handlers[h].ev.botId
\* C34: a channel post delivered to the endpoint of bot B is ingested through the primary
\* binding only when B is the bot configured for the post's chat: it leaves no Post and
\* no buffer entry in the collection of another bot A that is configured for the chat,
\* and A's sync timestamp is set only by deliveries to A's own endpoint.
EndpointOwnsBinding ==
  /\ \A h \in Handler :
        ChannelPost(h) =>
          \A A \in PrimaryBots(Message(h).chat[1].id) :
            A.id # Endpoint(h) =>
              /\ \A p \in PostsBy("h", h) : p.course_id # A.course_id
              /\ \A e \in buffer : e.id[2] = h => e.course_id # A.course_id
  /\ \A A \in SeqToSet(BotRows) :
        (\A h \in Handler : Endpoint(h) # A.id) => A.id \notin synced

BoundCourses(chat) ==
  IF PrimaryCourses(chat) # {} THEN PrimaryCourses(chat) ELSE LinkedCourses(chat, TRUE)
FirstDelivery(h) == \A h2 \in Handler : h2 # h => ~SameMessage(h2, h)
\* C35: duplicate suppression skips true redeliveries only.  A channel post without a
\* group id whose (chat id, message id) was delivered once, and whose processing ended
\* without a fault, has a Post of its own in every collection bound to its chat, whatever
\* Posts of the same numeric message id from other chats the collection already holds.
OnlyRedeliveriesSkipped ==
  \A h \in Handler :
    ( /\ ChannelPost(h) /\ Message(h).media_group_id = NullStr
      /\ FirstDelivery(h)
      /\ handlers[h].outcome \in {"ingested", "duplicate"} ) =>
      \A c \in BoundCourses(Message(h).chat[1].id) :
        \E p \in PostsBy("h", h) : p.course_id = c

CounterKept ==
  \A x \in sessions :
    ~x.is_active => \A y \in sessions' : y.id = x.id => y.message_count = x.message_count
\* C36: the counter of a Completed session never changes: no step alters the message
\* count of a row that has active = false, so the value the stop reply reported stays
\* the stored value, also when a forwarded message had read the session as Active
\* before the stop was handled.
CompletedCounterFrozen == [][CounterKept]_vars

PrivateForwarded(h) ==
  /\ handlers[h].ev.field = "message" /\ Message(h).chat # None
  /\ Message(h).chat[1].type = "private" /\ isForwarded(Message(h))
\* The start command was processed to its end, then the forwarded message, and nothing else.
ForwardedIntoSession(h) ==
  /\ Len(handlers) = 2 /\ h = 2 /\ handlers[2].after = {1}
  /\ IsStart(1) /\ handlers[1].reply = Some([text |-> "import started", count |-> None])
  /\ PrivateForwarded(h) /\ User(h) = User(1)
  /\ handlers[h].pc = "done"
\* C37: a private message marked as forwarded that arrives while its user has an Active
\* session is ingested into the session's collection and counted whatever its text; it
\* is not answered as a command and the session stays Active.
ForwardedNeverCommand ==
  \A h \in Handler :
    ForwardedIntoSession(h) =>
      /\ handlers[h].reply = None
      /\ handlers[h].counted # None
      /\ \E p \in PostsBy("h", h) : p.course_id = "cA" /\ p.text_content = Message(h).text
      /\ \E x \in ActiveSessions(User(h)) : x.message_count = 1

RemainingCourses(h) ==
  {handlers[h].targets[i].course_id : i \in 2..Len(handlers[h].targets)}
\* The handler ends while writing the Post of one collection although another
\* collection of the loop still lacks the message.
AbandonsSibling(h) ==
  /\ handlers[h].mode = "linked" /\ handlers[h].pc = "insertPost"
  /\ handlers'[h].pc \in Terminal
  /\ \E c \in RemainingCourses(h) :
       /\ c # Target(h).course_id
       /\ ExistingPosts(c, Message(h).message_id) = {}
\* C38: fan-out ingestion is independent per collection.  A failure while the Post of
\* one bound collection is written does not end the handler as long as another
\* collection bound by an active LinkedChat row has not received the post.
FanOutIndependent == [][\A h \in Handler : ~AbandonsSibling(h)]_vars

DotlessName(fileName) == Truthy(fileName) /\ ~HasDot(Chars(fileName))
FromMimeOrDefault(mimeType, mediaType) ==
  IF mimeType \in DOMAIN MimeMap THEN MimeMap[mimeType] ELSE DefaultExtension(mediaType)
\* C39: a file name hint without a '.' contributes no extension: the storage key of a
\* stored Post whose file name has no dot ends in the extension of the MIME table, or in
\* the category default; a video (fixed name 'video') declared video/mp4 is stored as mp4.
DotlessNameIgnored ==
  \A p \in posts :
    (p.storage_path # None /\ DotlessName(p.file_name)) =>
      p.storage_path[1].ext = FromMimeOrDefault(p.mime_type, p.media_type)
====
